---- MODULE Spec2Model ----
(***************************************************************************)
(* Model of the SSH remote-session bootstrap of the desktop application    *)
(* (packages/desktop/src-tauri/src/ssh.rs and main.rs).                    *)
(*                                                                         *)
(* The specifications share the variables of this module:                  *)
(*   Spec          the session orchestrator: ssh_connect, ssh_disconnect,   *)
(*                 shutdown and disconnect_session over SshState.session    *)
(*                 (FairSpec, ConnectFairSpec: with fairness)               *)
(*   PromptSpec    the askpass listener's handlers and ssh_prompt_reply     *)
(*                 over SshState.prompts (PromptFairSpec: with fairness)    *)
(*   ParserSpec    parse_ssh_command applied to bounded inputs              *)
(*   EnvelopeSpec  the askpass envelope writers and readers                 *)
(*   LineSpec      parse_listening_port applied to bounded lines            *)
(*   PortSpec      the stdout reader of spawn_remote_server and its channel *)
(*   MainSpec      main(): helper mode and the NO_PROXY / no_proxy upsert   *)
(*   QuoteSpec     sh_quote applied to bounded strings                      *)
(* Strings are sequences of one-character strings; byte strings are        *)
(* sequences of runs [b |-> byte, n |-> count].                            *)
(***************************************************************************)
EXTENDS Integers, Sequences, FiniteSets, TLC

VARIABLES
    \* ---- parse_ssh_command harness
    pIn,        \* the command string handed to parse_ssh_command
    pOut,       \* its result, or NotRun
    \* ---- askpass envelope harness
    envDir,     \* "prompt" (helper -> listener) or "reply" (listener -> helper)
    envIn,      \* the string written
    envPc,      \* "start", "written", "read"
    envStream,  \* the bytes on the connection
    envWrote,   \* the writer's result
    envOut,     \* the reader's result
    \* ---- parse_listening_port harness
    plIn,       \* the stdout line handed to parse_listening_port
    plOut,      \* its result, or NotRun
    \* ---- spawn_remote_server: the stdout reader and the port channel
    lines,      \* the remote server's stdout: a sequence of lines
    rdPos,      \* number of lines the reader task has consumed
    rdPc,       \* the reader task: "reading", "eof", "failed"
    portChan,   \* the mpsc channel of capacity 1: the ports buffered
    rxOpen,     \* the receiver has not been dropped
    rxPc,       \* spawn_remote_server: "recv", "got", "ok", "err"
    remotePort, \* the port it returns, 0 before
    \* ---- main(): the process environment at startup
    helperMode, \* OPENCODE_SSH_ASKPASS_SOCKET is set
    noProxy,    \* the values of NO_PROXY and no_proxy, or Unset
    noProxy0,   \* their values when the process started (history)
    mainPc,     \* main(): "start", "upper", "lower", "run", "helper"
    \* ---- sh_quote harness
    qIn,        \* the string handed to sh_quote
    qOut,       \* its result, or NotRun
    \* ---- SshState.session and the processes owned by sessions
    unix,       \* control_supported(): cfg!(unix)
    session,    \* SshState.session: NoSession or the key of the session held
    lock,       \* holder of the session mutex: "free", a caller, "shutdown"
    nextKey,    \* the next fresh key (uuid) a connect call will use
    pc,         \* per ssh_connect caller: where its call stands
    cur,        \* per caller: the key of its current call
    cmd,        \* per caller: the command string of its current call
    old,        \* per caller, and for "shutdown": the session it took from the slot
    steps,      \* per caller: the steps its current call has run, with their
                \* results, in order (history)
    sshV,       \* per caller: how `ssh -V` ended in its current call: "none",
                \* "spawn_failed", "exit_nonzero", "exit_zero"
    remoteVer,  \* per caller: the result of the remote version query of its
                \* current call, or NotRun
    installer,  \* per caller: the installer of its current call: "none", "ok",
                \* "failed"
    dir,        \* per key: the session directory exists
    madeDir,    \* per key: create_dir_all has succeeded (history)
    askpass,    \* per key: the listener task: "none", "running", "aborted"
    child,      \* per key: master, server, forward: "none", "alive", "killed"
    health,     \* per key: check_health has returned true (history)
    installed,  \* the keys that have been put into the slot (history)
    td,         \* per key: progress of disconnect_session on that session
    tdBy,       \* per key: who runs it: "connect", "task", "shutdown" (history)
    shPc,       \* the task spawned by shutdown()
    \* ---- SshState.prompts and the askpass listener's handlers
    prompts,    \* SshState.prompts: the ids that have an entry (a sender)
    chan,       \* per id: the oneshot channel: "none", "open", "full", "closed"
    nextId,     \* the next fresh prompt id (uuid)
    hpc,        \* per connection handler: where it stands
    hkey,       \* per handler: the key of the session whose listener accepted it
    hid,        \* per handler: its prompt id, 0 before it has one
    hstream,    \* per handler: the bytes the helper sent on the connection
    hprompt,    \* per handler: the prompt read
    hval,       \* per handler: the value chosen as the reply
    hout,       \* per handler: the bytes written back on the connection
    hargs,      \* per handler: the argv of the helper process that connected
    hstdout,    \* per handler: what that helper process wrote to its stdout
    emitted,    \* the ids carried by ssh_prompt events so far (history)
    timedOut,   \* the ids whose 120 s timeout has fired (history)
    sent,       \* per id: the values put on its channel, in order (history)
    replies,    \* number of ssh_prompt_reply calls so far
    lastReply   \* the last ssh_prompt_reply call: its id, value, and entry found

NotRun == [tag |-> "notrun"]

-----------------------------------------------------------------------------
(* Strings                                                                 *)

RECURSIVE Concat(_)
Concat(ss) == IF ss = <<>> THEN <<>> ELSE Head(ss) \o Concat(Tail(ss))

StartsWith(s, p) == Len(s) >= Len(p) /\ SubSeq(s, 1, Len(p)) = p

IsSpace(c) == c \in {" ", "\t", "\n"}

RECURSIVE TrimStart(_)
TrimStart(s) ==
    IF s # <<>> /\ IsSpace(Head(s)) THEN TrimStart(Tail(s)) ELSE s

RECURSIVE TrimEnd(_)
TrimEnd(s) ==
    IF s # <<>> /\ IsSpace(s[Len(s)]) THEN TrimEnd(SubSeq(s, 1, Len(s) - 1)) ELSE s

\* str::trim
Trim(s) == TrimEnd(TrimStart(s))

\* str::strip_prefix(p).unwrap_or(s)
StripPrefixOr(s, p) ==
    IF StartsWith(s, p) THEN SubSeq(s, Len(p) + 1, Len(s)) ELSE s

-----------------------------------------------------------------------------
(* parse_ssh_command (ssh.rs 84-164)                                       *)

NoneOpt == [some |-> FALSE]
Some(v) == [some |-> TRUE, v |-> v]

ParseOk(destination, args) ==
    [tag |-> "ok", destination |-> destination, args |-> args]
ParseErr(msg) == [tag |-> "err", msg |-> msg]
\* an index past the end of a Vec panics
ParsePanic == [tag |-> "panic"]

\* shell_words::split restricted to the characters the inputs use: blanks
\* separate words, a single quote opens a literal section closed by the next
\* single quote, an unclosed quote is an error.
RECURSIVE SplitFrom(_, _, _, _, _, _)
SplitFrom(s, i, word, inWord, inQuote, acc) ==
    IF i > Len(s)
    THEN IF inQuote THEN [ok |-> FALSE, tokens |-> <<>>]
         ELSE [ok |-> TRUE, tokens |-> IF inWord THEN Append(acc, word) ELSE acc]
    ELSE LET c == s[i] IN
         IF inQuote
         THEN IF c = "'" THEN SplitFrom(s, i + 1, word, TRUE, FALSE, acc)
              ELSE SplitFrom(s, i + 1, Append(word, c), TRUE, TRUE, acc)
         ELSE IF c = "'" THEN SplitFrom(s, i + 1, word, TRUE, TRUE, acc)
         ELSE IF IsSpace(c)
              THEN IF inWord THEN SplitFrom(s, i + 1, <<>>, FALSE, FALSE, Append(acc, word))
                   ELSE SplitFrom(s, i + 1, word, FALSE, FALSE, acc)
         ELSE SplitFrom(s, i + 1, Append(word, c), TRUE, FALSE, acc)

ShellSplit(s) == SplitFrom(s, 1, <<>>, FALSE, FALSE, <<>>)

ALLOWED_OPTS ==
    << <<"-", "4">>, <<"-", "6">>, <<"-", "A">>, <<"-", "a">>, <<"-", "C">>,
       <<"-", "K">>, <<"-", "k">>, <<"-", "X">>, <<"-", "x">>, <<"-", "Y">>,
       <<"-", "y">> >>

\* the allowlist with one more flag (-v) let through
ALLOWED_ARGS_WithVerbose ==
    << <<"-", "B">>, <<"-", "b">>, <<"-", "c">>, <<"-", "D">>, <<"-", "F">>,
       <<"-", "I">>, <<"-", "i">>, <<"-", "J">>, <<"-", "l">>, <<"-", "m">>,
       <<"-", "o">>, <<"-", "P">>, <<"-", "p">>, <<"-", "w">>, <<"-", "v">> >>

ALLOWED_ARGS ==
    << <<"-", "B">>, <<"-", "b">>, <<"-", "c">>, <<"-", "D">>, <<"-", "F">>,
       <<"-", "I">>, <<"-", "i">>, <<"-", "J">>, <<"-", "l">>, <<"-", "m">>,
       <<"-", "o">>, <<"-", "P">>, <<"-", "p">>, <<"-", "w">> >>

SeqContains(seq, x) == \E k \in 1..Len(seq) : seq[k] = x

\* tokens[i] for a 0-based i; NoneOpt where the Vec index would panic
TokenAt(tokens, i) ==
    IF i >= 0 /\ i < Len(tokens) THEN Some(tokens[i + 1]) ELSE NoneOpt

\* ssh.rs 112: destination.is_some()
DestinationSeenNever(destination) == FALSE
DestinationSeen(destination) == destination.some

\* ssh.rs 125
IsForwardFlag(tok) == StartsWith(tok, <<"-", "L">>) \/ StartsWith(tok, <<"-", "R">>)

\* ssh.rs 129: tok.starts_with('-')
IsDashToken(tok) == StartsWith(tok, <<"-">>)

\* ssh.rs 136: the bound check before the value of a separated flag is taken
HasNextTokenAlways(tokens, i) == TRUE
HasNextToken(tokens, i) == i < Len(tokens)

\* ssh.rs 131-148: the for loop over ALLOWED_ARGS, from its k-th entry.
\* Returns the loop's effect on (matched, i, args), or a panic.
RECURSIVE MatchValueFlag(_, _, _, _)
MatchValueFlag(tokens, i, args, k) ==
    IF k > Len(ALLOWED_ARGS)
    THEN [matched |-> FALSE, panic |-> FALSE, i |-> i, args |-> args]
    ELSE LET tok == tokens[i + 1]
             opt == ALLOWED_ARGS[k] IN
         IF tok = opt
         THEN IF HasNextToken(tokens, i + 1)
              THEN LET val == TokenAt(tokens, i + 1) IN
                   IF val.some
                   THEN [matched |-> TRUE, panic |-> FALSE, i |-> i + 2,
                         args |-> args \o <<tok, val.v>>]
                   ELSE [matched |-> TRUE, panic |-> TRUE, i |-> i + 1,
                         args |-> Append(args, tok)]
              ELSE [matched |-> TRUE, panic |-> FALSE, i |-> i + 1,
                    args |-> Append(args, tok)]
         ELSE IF StartsWith(tok, opt)
         THEN [matched |-> TRUE, panic |-> FALSE, i |-> i + 1,
               args |-> Append(args, tok)]
         ELSE MatchValueFlag(tokens, i, args, k + 1)

\* ssh.rs 109-163: the while loop and the final destination check
RECURSIVE Walk(_, _, _, _)
Walk(tokens, i, args, destination) ==
    IF ~(i < Len(tokens))
    THEN IF destination.some THEN ParseOk(destination.v, args)
         ELSE ParseErr("missing destination")
    ELSE LET tok == tokens[i + 1] IN
         IF DestinationSeen(destination) THEN ParseErr("remote command")
         ELSE IF SeqContains(ALLOWED_OPTS, tok)
         THEN Walk(tokens, i + 1, Append(args, tok), destination)
         ELSE IF IsForwardFlag(tok) THEN ParseErr("port forwarding")
         ELSE IF IsDashToken(tok)
         THEN LET m == MatchValueFlag(tokens, i, args, 1) IN
              IF m.panic THEN ParsePanic
              ELSE IF m.matched THEN Walk(tokens, m.i, m.args, destination)
              ELSE ParseErr("unsupported argument")
         ELSE Walk(tokens, i + 1, args, Some(tok))

SshPrefix == <<"s", "s", "h", " ">>

parse_ssh_command(input) ==
    LET trimmed == Trim(input) IN
    IF trimmed = <<>> THEN ParseErr("empty")
    ELSE LET without_prefix == StripPrefixOr(trimmed, SshPrefix)
             split == ShellSplit(without_prefix) IN
         IF ~split.ok THEN ParseErr("invalid")
         ELSE IF split.tokens = <<>> THEN ParseErr("empty")
         ELSE Walk(split.tokens, 0, <<>>, NoneOpt)

\* ---- inputs: up to MaxTokens words joined by blanks, optionally padded
MaxTokens == 3

Words ==
    { <<"h">>, <<"s", "s", "h">>, <<"-", "4">>, <<"-", "i">>, <<"-", "i", "k">>,
      <<"-", "l">>, <<"-", "L">>, <<"-", "L", "8">>, <<"-", "R", "8">>,
      <<"-", "v">>, <<"-">>, <<"'", "'">>, <<"'">> }

RECURSIVE Join(_)
Join(ws) ==
    IF ws = <<>> THEN <<>>
    ELSE IF Len(ws) = 1 THEN Head(ws)
    ELSE Head(ws) \o <<" ">> \o Join(Tail(ws))

WordLists == UNION {[1..n -> Words] : n \in 0..MaxTokens}

Pads == {<<>>, <<" ">>}

ParserInputs == {pad \o Join(ws) \o pad : pad \in Pads, ws \in WordLists}

-----------------------------------------------------------------------------
(* The askpass envelope: read_prompt and write_reply (ssh.rs 526-557) and   *)
(* the helper's writer and reader (main.rs 104-121).                       *)
(* A byte string is a sequence of runs [b |-> byte, n |-> count], n >= 1,   *)
(* so that payloads around the 64 KiB limit stay small values.             *)

\* 64 * 1024, ssh.rs 533
MAX_PROMPT_LEN == 64 * 1024

Run(b, n) == [b |-> b, n |-> n]

RECURSIVE ByteLen(_)
ByteLen(bytes) == IF bytes = <<>> THEN 0 ELSE Head(bytes).n + ByteLen(Tail(bytes))

\* u32::try_from(usize).is_ok(): n < 2^32, written so that no intermediate
\* value leaves the integer range of TLC
FitsU32(n) == n \div 65536 < 65536

\* the header written least significant byte first
ToLeBytes(len) ==
    << Run(len % 256, 1), Run((len \div 256) % 256, 1),
       Run((len \div 65536) % 256, 1), Run((len \div 16777216) % 256, 1) >>

\* u32::to_be_bytes
ToBeBytes(len) ==
    << Run((len \div 16777216) % 256, 1), Run((len \div 65536) % 256, 1),
       Run((len \div 256) % 256, 1), Run(len % 256, 1) >>

\* the single bytes of a short byte string
RECURSIVE Expand(_)
Expand(bytes) ==
    IF bytes = <<>> THEN <<>>
    ELSE LET r == Head(bytes) IN
         IF r.n = 1 THEN <<r.b>> \o Expand(Tail(bytes))
         ELSE <<r.b>> \o Expand(<<Run(r.b, r.n - 1)>> \o Tail(bytes))

\* u32::from_be_bytes of four single bytes
FromBeBytes(b) == b[1] * 16777216 + b[2] * 65536 + b[3] * 256 + b[4]

\* read_exact(n): the first n bytes of the stream, or an error (unexpected EOF)
RECURSIVE ReadExact(_, _)
ReadExact(stream, n) ==
    IF n = 0 THEN [ok |-> TRUE, bytes |-> <<>>, rest |-> stream]
    ELSE IF stream = <<>> THEN [ok |-> FALSE, bytes |-> <<>>, rest |-> <<>>]
    ELSE LET r == Head(stream) IN
         IF r.n <= n
         THEN LET t == ReadExact(Tail(stream), n - r.n) IN
              [ok |-> t.ok, bytes |-> <<r>> \o t.bytes, rest |-> t.rest]
         ELSE [ok |-> TRUE, bytes |-> <<Run(r.b, n)>>,
               rest |-> <<Run(r.b, r.n - n)>> \o Tail(stream)]

\* String::from_utf8(..).is_ok(), by the lead and continuation bytes:
\* need = continuation bytes still owed by the current character
RECURSIVE Utf8From(_, _)
Utf8From(bytes, need) ==
    IF bytes = <<>> THEN need = 0
    ELSE LET r == Head(bytes) IN
         IF r.b < 128 THEN need = 0 /\ Utf8From(Tail(bytes), 0)
         ELSE IF r.b < 192 THEN need >= r.n /\ Utf8From(Tail(bytes), need - r.n)
         ELSE IF r.b < 194 \/ r.b > 244 THEN FALSE
         ELSE need = 0 /\ r.n = 1
              /\ Utf8From(Tail(bytes),
                          IF r.b < 224 THEN 1 ELSE IF r.b < 240 THEN 2 ELSE 3)

IsUtf8(bytes) == Utf8From(bytes, 0)

EnvOk(value) == [tag |-> "ok", value |-> value]
EnvErr(msg) == [tag |-> "err", msg |-> msg]

\* the length check of read_prompt with the limit itself rejected
PromptTooLargeStrict(len) == len >= MAX_PROMPT_LEN
\* ssh.rs 533
PromptTooLarge(len) == len > MAX_PROMPT_LEN

\* ssh.rs 526-543
read_prompt(stream) ==
    LET len_buf == ReadExact(stream, 4) IN
    IF ~len_buf.ok THEN EnvErr("read length")
    ELSE LET len == FromBeBytes(Expand(len_buf.bytes)) IN
         IF PromptTooLarge(len) THEN EnvErr("too large")
         ELSE LET buf == ReadExact(len_buf.rest, len) IN
              IF ~buf.ok THEN EnvErr("read prompt")
              ELSE IF ~IsUtf8(buf.bytes) THEN EnvErr("not utf-8")
              ELSE EnvOk(buf.bytes)

\* ssh.rs 545-557: the stream after the call and the call's result
write_reply(stream, value) ==
    IF ~FitsU32(ByteLen(value))
    THEN [ok |-> FALSE, stream |-> stream]
    ELSE [ok |-> TRUE, stream |-> stream \o ToBeBytes(ByteLen(value)) \o value]

\* main.rs 104-109: the helper's prompt writer
helper_write_prompt(stream, prompt) ==
    LET len == IF FitsU32(ByteLen(prompt)) THEN ByteLen(prompt) ELSE 0 IN
    [ok |-> TRUE, stream |-> stream \o ToBeBytes(len) \o prompt]

\* main.rs 111-121: the helper's reply reader
helper_read_reply(stream) ==
    LET len_buf == ReadExact(stream, 4) IN
    IF ~len_buf.ok THEN EnvErr("askpass read failed")
    ELSE LET reply_len == FromBeBytes(Expand(len_buf.bytes))
             reply == ReadExact(len_buf.rest, reply_len) IN
         IF ~reply.ok THEN EnvErr("askpass read failed")
         ELSE EnvOk(reply.bytes)

\* ---- inputs: UTF-8 strings of up to MaxRuns runs, of lengths around the limit
MaxRuns == 2

EnvLens == {1, 2, 255, 256, MAX_PROMPT_LEN - 1, MAX_PROMPT_LEN, MAX_PROMPT_LEN + 1}

\* "A", "B", and the two bytes of U+00E9
EnvBytes == {65, 66, 195, 169}

Canonical(bytes) == \A k \in 1..(Len(bytes) - 1) : bytes[k].b # bytes[k + 1].b

EnvStrings ==
    {s \in UNION {[1..n -> [b : EnvBytes, n : EnvLens]] : n \in 0..MaxRuns} :
        Canonical(s) /\ IsUtf8(s)}

-----------------------------------------------------------------------------
(* parse_listening_port (ssh.rs 404-411)                                   *)

Needle ==
    << "o", "p", "e", "n", "c", "o", "d", "e", " ", "s", "e", "r", "v", "e", "r",
       " ", "l", "i", "s", "t", "e", "n", "i", "n", "g", " ", "o", "n", " ",
       "h", "t", "t", "p", ":", "/", "/" >>

\* str::strip_prefix
StripPrefix(s, p) ==
    IF StartsWith(s, p) THEN Some(SubSeq(s, Len(p) + 1, Len(s))) ELSE NoneOpt

\* the characters of s up to the first whitespace
RECURSIVE TakeWord(_)
TakeWord(s) ==
    IF s = <<>> \/ IsSpace(Head(s)) THEN <<>> ELSE <<Head(s)>> \o TakeWord(Tail(s))

\* str::split_whitespace().next()
FirstWord(s) ==
    LET t == TrimStart(s) IN IF t = <<>> THEN NoneOpt ELSE Some(TakeWord(t))

\* str::rsplit(c).next(): the text after the last c, all of s without one
RECURSIVE AfterLast(_, _)
AfterLast(s, c) ==
    IF s = <<>> \/ s[Len(s)] = c THEN <<>>
    ELSE AfterLast(SubSeq(s, 1, Len(s) - 1), c) \o <<s[Len(s)]>>

Digits == {"0", "1", "2", "3", "4", "5", "6", "7", "8", "9"}

DigitValue(c) ==
    CASE c = "0" -> 0 [] c = "1" -> 1 [] c = "2" -> 2 [] c = "3" -> 3
      [] c = "4" -> 4 [] c = "5" -> 5 [] c = "6" -> 6 [] c = "7" -> 7
      [] c = "8" -> 8 [] c = "9" -> 9

U16_MAX == 65535

\* the decimal value of a digit string, not carried on once above U16_MAX
RECURSIVE DecValue(_, _)
DecValue(s, acc) ==
    IF s = <<>> \/ acc > U16_MAX THEN acc
    ELSE DecValue(Tail(s), acc * 10 + DigitValue(Head(s)))

\* str::parse::<u16>().ok(): an optional '+', then digits, at most U16_MAX
ParseU16(s) ==
    LET body == IF s # <<>> /\ Head(s) = "+" THEN Tail(s) ELSE s IN
    IF body = <<>> \/ \E i \in 1..Len(body) : body[i] \notin Digits THEN NoneOpt
    ELSE IF DecValue(body, 0) > U16_MAX THEN NoneOpt
    ELSE Some(DecValue(body, 0))

\* ssh.rs 404-411
parse_listening_port(line) ==
    LET stripped == StripPrefix(Trim(line), Needle) IN
    IF ~stripped.some THEN NoneOpt
    ELSE LET rest == stripped.v
             word == FirstWord(rest)
             hostport == IF word.some THEN word.v ELSE rest
             port == AfterLast(hostport, ":") IN
         ParseU16(Trim(port))

\* ---- inputs: lines built around the announcement, and lines without it
\* words of extra text after the announcement
MaxExtra == 1

LinePrefixes == { <<>>, <<" ">>, <<"t", " ">> }

HostPorts ==
    { <<"h", ":", "7">>, <<"h", ":", "8", "0">>, <<":", ":", "1", ":", "9">>,
      <<"h", ":", "6", "5", "5", "3", "5">>, <<"h", ":", "6", "5", "5", "3", "6">>,
      <<"h", ":", "x">>, <<"h">>, <<"7">> }

RECURSIVE ExtraText(_)
ExtraText(n) == IF n = 0 THEN <<>> ELSE <<" ", " ", "e">> \o ExtraText(n - 1)

LineTails == { <<" ">> } \cup { ExtraText(n) : n \in 0..MaxExtra }

LineInputs ==
    { pre \o Needle \o hp \o tail :
        pre \in LinePrefixes, hp \in HostPorts, tail \in LineTails }
    \cup { <<>>, <<"e">>, Tail(Needle) \o <<"h", ":", "7">> }

-----------------------------------------------------------------------------
(* main(): the NO_PROXY / no_proxy upsert (main.rs 128-153)                 *)

Comma == ","

\* str::split(c): the pieces between the separators, one piece for ""
RECURSIVE SplitOn(_, _, _)
SplitOn(s, c, piece) ==
    IF s = <<>> THEN <<piece>>
    ELSE IF Head(s) = c THEN <<piece>> \o SplitOn(Tail(s), c, <<>>)
    ELSE SplitOn(Tail(s), c, Append(piece, Head(s)))

\* items.join(sep)
RECURSIVE JoinWith(_, _)
JoinWith(items, sep) ==
    IF items = <<>> THEN <<>>
    ELSE IF Len(items) = 1 THEN Head(items)
    ELSE Head(items) \o <<sep>> \o JoinWith(Tail(items), sep)

UpperCase == << "A", "C", "H", "L", "O", "S", "T" >>
LowerCase == << "a", "c", "h", "l", "o", "s", "t" >>

\* u8::to_ascii_lowercase, on the letters the inputs use
ToAsciiLower(c) ==
    IF \E i \in 1..Len(UpperCase) : UpperCase[i] = c
    THEN LowerCase[CHOOSE i \in 1..Len(UpperCase) : UpperCase[i] = c]
    ELSE c

\* the comparison of the entries character by character, case kept
EqExactCase(a, b) == a = b
\* str::eq_ignore_ascii_case
EqIgnoreAsciiCase(a, b) ==
    /\ Len(a) = Len(b)
    /\ \A i \in 1..Len(a) : ToAsciiLower(a[i]) = ToAsciiLower(b[i])

\* main.rs 130
LOOPBACK ==
    << <<"1", "2", "7", ".", "0", ".", "0", ".", "1">>,
       <<"l", "o", "c", "a", "l", "h", "o", "s", "t">>,
       <<":", ":", "1">> >>

\* main.rs 135-139: split(','), trim, drop the empty pieces
RECURSIVE TrimmedNonEmpty(_)
TrimmedNonEmpty(pieces) ==
    IF pieces = <<>> THEN <<>>
    ELSE LET v == Trim(Head(pieces)) IN
         IF v = <<>> THEN TrimmedNonEmpty(Tail(pieces))
         ELSE <<v>> \o TrimmedNonEmpty(Tail(pieces))

ProxyItems(value) == TrimmedNonEmpty(SplitOn(value, Comma, <<>>))

\* main.rs 141-146: push every loopback host no item equals
RECURSIVE PushMissing(_, _)
PushMissing(items, hosts) ==
    IF hosts = <<>> THEN items
    ELSE IF \E i \in 1..Len(items) : EqIgnoreAsciiCase(items[i], Head(hosts))
    THEN PushMissing(items, Tail(hosts))
    ELSE PushMissing(Append(items, Head(hosts)), Tail(hosts))

\* std::env::var(key).unwrap_or_default()
VarOrDefault(v) == IF v.some THEN v.v ELSE <<>>

\* main.rs 132-150: the value the variable is set to
UpsertValue(v) == JoinWith(PushMissing(ProxyItems(VarOrDefault(v)), LOOPBACK), Comma)

\* ---- inputs: unset, or a list of up to MaxEntries entries
MaxEntries == 2

ProxyEntries ==
    { <<"a">>, <<" ", "L", "o", "c", "a", "l", "H", "o", "s", "t">>,
      <<":", ":", "1">>, <<>>,
      <<"1", "2", "7", ".", "0", ".", "0", ".", "1">> }

ProxyValues ==
    { NoneOpt } \cup
    { Some(JoinWith(es, Comma)) :
        es \in UNION {[1..n -> ProxyEntries] : n \in 0..MaxEntries} }

-----------------------------------------------------------------------------
(* sh_quote (ssh.rs 166-169)                                               *)

\* str::replace(from, to) for a one-character pattern
RECURSIVE Replace(_, _, _)
Replace(s, from, to) ==
    IF s = <<>> THEN <<>>
    ELSE (IF Head(s) = from THEN to ELSE <<Head(s)>>) \o Replace(Tail(s), from, to)

Quote == "'"
Backslash == "\\"

\* ssh.rs 167: the literal has five characters: quote, backslash, and three
\* more quotes
QUOTE_ESCAPE == <<Quote, Backslash, Quote, Quote, Quote>>

\* ssh.rs 166-169
sh_quote(input) ==
    LET escaped == Replace(input, Quote, QUOTE_ESCAPE) IN
    <<Quote>> \o escaped \o <<Quote>>

\* longest string handed to sh_quote
MaxQuoteLen == 3

QuoteAlphabet == {"a", " ", Quote, Backslash}

QuoteInputs == UNION { [1..n -> QuoteAlphabet] : n \in 0..MaxQuoteLen }

-----------------------------------------------------------------------------
(* The session orchestrator (ssh.rs 515-524, 719-863)                      *)

\* ssh_connect calls checked in one run (each uses a fresh key)
MaxKeys == 2

Callers == {"c1", "c2"}
Keys == 1..MaxKeys
NoSession == 0
\* ssh_disconnect may be handed any string: 0 stands for a key never generated
KeyArgs == 0..MaxKeys

ConnectCommands ==
    { <<"s", "s", "h", " ", "h">>,      \* ssh h
      <<"h", " ", "h">> }               \* h h: a remote command

NoChildren == [master |-> "none", server |-> "none", forward |-> "none"]

Kill(c) == IF c = "alive" THEN "killed" ELSE c

parserVars == <<pIn, pOut>>
envVars == <<envDir, envIn, envPc, envStream, envWrote, envOut>>
lineVars == <<plIn, plOut>>
portVars == <<lines, rdPos, rdPc, portChan, rxOpen, rxPc, remotePort>>
mainVars == <<helperMode, noProxy, noProxy0, mainPc>>
quoteVars == <<qIn, qOut>>
pureVars == <<parserVars, envVars, lineVars, portVars, mainVars, quoteVars>>
probeVars == <<sshV, remoteVer, installer>>
callVars == <<pc, cur, cmd, old, steps, nextKey, probeVars>>
resVars == <<dir, madeDir, askpass, child, health>>
slotVars == <<session, lock, installed, td, tdBy>>
sessVars == <<unix, callVars, resVars, slotVars, shPc>>
handlerVars == <<hpc, hkey, hid, hstream, hprompt, hval, hout, hargs, hstdout>>
promptVars == <<prompts, chan, nextId, handlerVars, emitted, timedOut, sent,
                replies, lastReply>>

vars == <<pureVars, sessVars, promptVars>>

\* a connect step of caller p that only moves p on
Goto(p, label) == pc' = [pc EXCEPT ![p] = label]

\* caller p has run the step, with the result ok
Step(p, name, ok) ==
    steps' = [steps EXCEPT ![p] = Append(@, [step |-> name, ok |-> ok])]

\* ssh.rs 743: the call; the key and password are fresh uuids
ConnectCall(p, command) ==
    /\ pc[p] = "idle"
    /\ nextKey <= MaxKeys
    /\ Goto(p, "ensure_ssh")
    /\ cur' = [cur EXCEPT ![p] = nextKey]
    /\ cmd' = [cmd EXCEPT ![p] = command]
    /\ nextKey' = nextKey + 1
    /\ UNCHANGED <<old, probeVars, unix, resVars, slotVars, shPc>>
    /\ steps' = [steps EXCEPT ![p] = <<>>]
    /\ UNCHANGED <<pureVars, promptVars>>

\* ssh.rs 176-195, called at 745: only a failure to run ssh at all is an error
ensure_ssh_available(p, status) ==
    /\ pc[p] = "ensure_ssh"
    /\ Goto(p, IF status = "spawn_failed" THEN "err" ELSE "parse")
    /\ sshV' = [sshV EXCEPT ![p] = status]
    /\ UNCHANGED <<cur, cmd, old, nextKey, remoteVer, installer, unix, resVars,
                   slotVars, shPc>>
    /\ Step(p, "ensure_ssh", status # "spawn_failed")
    /\ UNCHANGED <<pureVars, promptVars>>

\* ssh.rs 746
ParseCommand(p) ==
    /\ pc[p] = "parse"
    /\ Goto(p, IF parse_ssh_command(cmd[p]).tag = "ok" THEN "take" ELSE "err")
    /\ UNCHANGED <<cur, cmd, old, nextKey, probeVars, unix, resVars, slotVars, shPc>>
    /\ Step(p, "parse", parse_ssh_command(cmd[p]).tag = "ok")
    /\ UNCHANGED <<pureVars, promptVars>>

\* ssh.rs 751-756: lock, take(); the guard lives until the end of the if-let,
\* so the mutex stays held while the old session is torn down
TakeSlot(p) ==
    /\ pc[p] = "take"
    /\ lock = "free"
    /\ IF session = NoSession
       THEN /\ Goto(p, "mkdir")
            /\ UNCHANGED <<old, slotVars>>
       ELSE /\ Goto(p, "teardown")
            /\ old' = [old EXCEPT ![p] = session]
            /\ session' = NoSession
            /\ lock' = p
            /\ td' = [td EXCEPT ![session] = "forward"]
            /\ tdBy' = [tdBy EXCEPT ![session] = "connect"]
            /\ UNCHANGED installed
    /\ UNCHANGED <<cur, cmd, nextKey, probeVars, unix, resVars, shPc>>
    /\ Step(p, "take", TRUE)
    /\ UNCHANGED <<pureVars, promptVars>>

\* ssh.rs 754-756: disconnect_session has returned; the guard is dropped
TakeSlotDone(p) ==
    /\ pc[p] = "teardown"
    /\ td[old[p]] = "done"
    /\ Goto(p, "mkdir")
    /\ lock' = "free"
    /\ UNCHANGED <<cur, cmd, old, nextKey, probeVars, unix, resVars, session, installed, td,
                   tdBy, shPc>>
    /\ UNCHANGED steps
    /\ UNCHANGED <<pureVars, promptVars>>

\* disconnect_session killing the server before the forward
disconnect_session_ServerFirst(k) ==
    /\ td[k] \in {"forward", "server", "master", "askpass", "dir"}
    /\ CASE td[k] = "forward" ->
              /\ child' = [child EXCEPT ![k].server = Kill(@)]
              /\ td' = [td EXCEPT ![k] = "server"]
              /\ UNCHANGED <<dir, askpass>>
         [] td[k] = "server" ->
              /\ child' = [child EXCEPT ![k].forward = Kill(@)]
              /\ td' = [td EXCEPT ![k] =
                            IF child[k].master = "none" THEN "askpass" ELSE "master"]
              /\ UNCHANGED <<dir, askpass>>
         [] td[k] = "master" ->
              /\ child' = [child EXCEPT ![k].master = Kill(@)]
              /\ td' = [td EXCEPT ![k] = "askpass"]
              /\ UNCHANGED <<dir, askpass>>
         [] td[k] = "askpass" ->
              /\ askpass' = [askpass EXCEPT ![k] = "aborted"]
              /\ td' = [td EXCEPT ![k] = "dir"]
              /\ UNCHANGED <<dir, child>>
         [] td[k] = "dir" ->
              /\ dir' = [dir EXCEPT ![k] = FALSE]
              /\ td' = [td EXCEPT ![k] = "done"]
              /\ UNCHANGED <<askpass, child>>
    /\ UNCHANGED <<callVars, unix, madeDir, health, session, lock, installed,
                   tdBy, shPc>>
    /\ UNCHANGED <<pureVars, promptVars>>

\* ssh.rs 515-524: one step of disconnect_session on the session of key k
disconnect_session(k) ==
    /\ td[k] \in {"forward", "server", "master", "askpass", "dir"}
    /\ CASE td[k] = "forward" ->
              /\ child' = [child EXCEPT ![k].forward = Kill(@)]
              /\ td' = [td EXCEPT ![k] = "server"]
              /\ UNCHANGED <<dir, askpass>>
         [] td[k] = "server" ->
              /\ child' = [child EXCEPT ![k].server = Kill(@)]
              /\ td' = [td EXCEPT ![k] =
                            IF child[k].master = "none" THEN "askpass" ELSE "master"]
              /\ UNCHANGED <<dir, askpass>>
         [] td[k] = "master" ->
              /\ child' = [child EXCEPT ![k].master = Kill(@)]
              /\ td' = [td EXCEPT ![k] = "askpass"]
              /\ UNCHANGED <<dir, askpass>>
         [] td[k] = "askpass" ->
              /\ askpass' = [askpass EXCEPT ![k] = "aborted"]
              /\ td' = [td EXCEPT ![k] = "dir"]
              /\ UNCHANGED <<dir, child>>
         [] td[k] = "dir" ->
              /\ dir' = [dir EXCEPT ![k] = FALSE]
              /\ td' = [td EXCEPT ![k] = "done"]
              /\ UNCHANGED <<askpass, child>>
    /\ UNCHANGED <<callVars, unix, madeDir, health, session, lock, installed,
                   tdBy, shPc>>
    /\ UNCHANGED <<pureVars, promptVars>>

\* ssh.rs 765-770: create_dir_all
CreateDir(p, ok) ==
    /\ pc[p] = "mkdir"
    /\ IF ok
       THEN /\ Goto(p, "askpass")
            /\ dir' = [dir EXCEPT ![cur[p]] = TRUE]
            /\ madeDir' = [madeDir EXCEPT ![cur[p]] = TRUE]
       ELSE /\ Goto(p, "err")
            /\ UNCHANGED <<dir, madeDir>>
    /\ UNCHANGED <<cur, cmd, old, nextKey, probeVars, unix, askpass, child, health, slotVars,
                   shPc>>
    /\ Step(p, "mkdir", ok)
    /\ UNCHANGED <<pureVars, promptVars>>

\* ssh.rs 773-777: spawn_askpass_server (559-628), then exe_path
spawn_askpass_server(p, outcome) ==
    /\ pc[p] = "askpass"
    /\ CASE outcome = "bind_failed" ->
              /\ Goto(p, "err")
              /\ UNCHANGED askpass
         [] outcome = "exe_path_failed" ->
              /\ Goto(p, "err")
              /\ askpass' = [askpass EXCEPT ![cur[p]] = "running"]
         [] outcome = "ok" ->
              /\ Goto(p, IF unix THEN "master" ELSE "bootstrap")
              /\ askpass' = [askpass EXCEPT ![cur[p]] = "running"]
    /\ UNCHANGED <<cur, cmd, old, nextKey, probeVars, unix, dir, madeDir, child, health,
                   slotVars, shPc>>
    /\ Step(p, "askpass", outcome = "ok")
    /\ UNCHANGED <<pureVars, promptVars>>

\* ssh.rs 787: spawn_master (372-402)
spawn_master(p, ok) ==
    /\ pc[p] = "master"
    /\ IF ok
       THEN /\ Goto(p, "wait_master")
            /\ child' = [child EXCEPT ![cur[p]].master = "alive"]
       ELSE /\ Goto(p, "err")
            /\ UNCHANGED child
    /\ UNCHANGED <<cur, cmd, old, nextKey, probeVars, unix, dir, madeDir, askpass, health,
                   slotVars, shPc>>
    /\ Step(p, "master", ok)
    /\ UNCHANGED <<pureVars, promptVars>>

\* the connect going on to the bootstrap whatever the readiness check returned
wait_master_ready_Unchecked(p, ok) ==
    /\ pc[p] = "wait_master"
    /\ Goto(p, "bootstrap")
    /\ UNCHANGED <<cur, cmd, old, nextKey, probeVars, unix, resVars, slotVars, shPc>>
    /\ Step(p, "wait_master", ok)
    /\ UNCHANGED <<pureVars, promptVars>>

\* ssh.rs 789: wait_master_ready (286-312): ready, or 30 s have passed
wait_master_ready(p, ok) ==
    /\ pc[p] = "wait_master"
    /\ Goto(p, IF ok THEN "bootstrap" ELSE "err")
    /\ UNCHANGED <<cur, cmd, old, nextKey, probeVars, unix, resVars, slotVars, shPc>>
    /\ Step(p, "wait_master", ok)
    /\ UNCHANGED <<pureVars, promptVars>>

\* ssh.rs 320: app.package_info().version
VERSION == <<"1">>

\* what ssh_output returns for the version query: its stdout, or an error
QueryOk(stdout) == [tag |-> "ok", stdout |-> stdout]
QueryErr == [tag |-> "err"]

VersionQueryResults ==
    { QueryErr,
      QueryOk(<<"1", "\n">>),         \* the local version
      QueryOk(<<"2", "\n">>) }        \* another version

\* ssh.rs 334-335: .ok().map(|v| v.trim().to_string())
InstalledVersion(res) ==
    IF res.tag = "ok" THEN Some(Trim(res.stdout)) ELSE NoneOpt

\* ssh.rs 342: installed.as_deref() == Some(version.as_str())
VersionMatches(res) == InstalledVersion(res) = Some(VERSION)

\* the version query going on to the installer whatever it found
RemoteVersion_AlwaysInstall(p, res) ==
    /\ pc[p] = "bootstrap"
    /\ Goto(p, "install")
    /\ remoteVer' = [remoteVer EXCEPT ![p] = res]
    /\ UNCHANGED <<cur, cmd, old, nextKey, sshV, installer, unix, resVars, slotVars,
                   shPc>>
    /\ UNCHANGED steps
    /\ UNCHANGED <<pureVars, promptVars>>

\* ssh.rs 797, 322-345: the version query of ensure_remote_opencode; only a
\* matching version returns, a failed query goes on to the installer
RemoteVersion(p, res) ==
    /\ pc[p] = "bootstrap"
    /\ Goto(p, IF VersionMatches(res) THEN "server" ELSE "install")
    /\ remoteVer' = [remoteVer EXCEPT ![p] = res]
    /\ UNCHANGED <<cur, cmd, old, nextKey, sshV, installer, unix, resVars, slotVars,
                   shPc>>
    /\ IF VersionMatches(res) THEN Step(p, "bootstrap", TRUE) ELSE UNCHANGED steps
    /\ UNCHANGED <<pureVars, promptVars>>

\* ssh.rs 347-369: the installer
RemoteInstall(p, ok) ==
    /\ pc[p] = "install"
    /\ Goto(p, IF ok THEN "server" ELSE "err")
    /\ installer' = [installer EXCEPT ![p] = IF ok THEN "ok" ELSE "failed"]
    /\ UNCHANGED <<cur, cmd, old, nextKey, sshV, remoteVer, unix, resVars, slotVars,
                   shPc>>
    /\ Step(p, "bootstrap", ok)
    /\ UNCHANGED <<pureVars, promptVars>>

\* ssh.rs 423-442: the spawn of spawn_remote_server
spawn_remote_server(p, ok) ==
    /\ pc[p] = "server"
    /\ IF ok
       THEN /\ Goto(p, "port")
            /\ child' = [child EXCEPT ![cur[p]].server = "alive"]
       ELSE /\ Goto(p, "err")
            /\ UNCHANGED child
    /\ UNCHANGED <<cur, cmd, old, nextKey, probeVars, unix, dir, madeDir, askpass, health,
                   slotVars, shPc>>
    /\ Step(p, "server", ok)
    /\ UNCHANGED <<pureVars, promptVars>>

\* ssh.rs 465-470: the port arrives, or 30 s pass, or the channel closes; on
\* an error the Child is dropped, which does not kill the process
AwaitPort(p, ok) ==
    /\ pc[p] = "port"
    /\ Goto(p, IF ok THEN "forward" ELSE "err")
    /\ UNCHANGED <<cur, cmd, old, nextKey, probeVars, unix, resVars, slotVars, shPc>>
    /\ Step(p, "port", ok)
    /\ UNCHANGED <<pureVars, promptVars>>

\* ssh.rs 806-814: spawn_forward (473-513)
spawn_forward(p, ok) ==
    /\ pc[p] = "forward"
    /\ IF ok
       THEN /\ Goto(p, "health")
            /\ child' = [child EXCEPT ![cur[p]].forward = "alive"]
       ELSE /\ Goto(p, "err")
            /\ UNCHANGED child
    /\ UNCHANGED <<cur, cmd, old, nextKey, probeVars, unix, dir, madeDir, askpass, health,
                   slotVars, shPc>>
    /\ Step(p, "forward", ok)
    /\ UNCHANGED <<pureVars, promptVars>>

\* the health loop leaving by break when the 30 s have passed
HealthPollBreakOnTimeout(p, ok) ==
    /\ pc[p] = "health"
    /\ Goto(p, "install_session")
    /\ health' = [health EXCEPT ![cur[p]] = ok]
    /\ UNCHANGED <<cur, cmd, old, nextKey, probeVars, unix, dir, madeDir, askpass, child,
                   slotVars, shPc>>
    /\ Step(p, "health", ok)
    /\ UNCHANGED <<pureVars, promptVars>>

\* ssh.rs 816-827: check_health returns true, or 30 s pass
HealthPoll(p, ok) ==
    /\ pc[p] = "health"
    /\ IF ok
       THEN /\ Goto(p, "install_session")
            /\ health' = [health EXCEPT ![cur[p]] = TRUE]
       ELSE /\ Goto(p, "err")
            /\ UNCHANGED health
    /\ UNCHANGED <<cur, cmd, old, nextKey, probeVars, unix, dir, madeDir, askpass, child,
                   slotVars, shPc>>
    /\ Step(p, "health", ok)
    /\ UNCHANGED <<pureVars, promptVars>>

\* ssh.rs 829-851: replace() puts the session into the slot; the value it
\* returns, the session that was there, is dropped
InstallSession(p) ==
    /\ pc[p] = "install_session"
    /\ lock = "free"
    /\ Goto(p, "ok")
    /\ session' = cur[p]
    /\ installed' = installed \cup {cur[p]}
    /\ UNCHANGED <<cur, cmd, old, nextKey, probeVars, unix, resVars, lock, td, tdBy, shPc>>
    /\ Step(p, "install_session", TRUE)
    /\ UNCHANGED <<pureVars, promptVars>>

\* ssh_connect has returned Ok or Err; the caller may call again
ConnectReturn(p) ==
    /\ pc[p] \in {"ok", "err"}
    /\ Goto(p, "idle")
    /\ cur' = [cur EXCEPT ![p] = NoSession]
    /\ cmd' = [cmd EXCEPT ![p] = <<>>]
    /\ old' = [old EXCEPT ![p] = NoSession]
    /\ UNCHANGED <<nextKey, unix, resVars, slotVars, shPc>>
    /\ steps' = [steps EXCEPT ![p] = <<>>]
    /\ sshV' = [sshV EXCEPT ![p] = "none"]
    /\ remoteVer' = [remoteVer EXCEPT ![p] = NotRun]
    /\ installer' = [installer EXCEPT ![p] = "none"]
    /\ UNCHANGED <<pureVars, promptVars>>

\* ssh_disconnect taking the session whatever its key
ssh_disconnect_AnyKey(key) ==
    /\ lock = "free"
    /\ IF session # NoSession
       THEN /\ session' = NoSession
            /\ td' = [td EXCEPT ![session] = "forward"]
            /\ tdBy' = [tdBy EXCEPT ![session] = "task"]
       ELSE UNCHANGED <<session, td, tdBy>>
    /\ UNCHANGED <<callVars, unix, resVars, lock, installed, shPc>>
    /\ UNCHANGED <<pureVars, promptVars>>

\* ssh.rs 721-739: take the session iff its key matches, then spawn the task
\* that runs disconnect_session
ssh_disconnect(key) ==
    /\ lock = "free"
    /\ IF session # NoSession /\ session = key
       THEN /\ session' = NoSession
            /\ td' = [td EXCEPT ![key] = "forward"]
            /\ tdBy' = [tdBy EXCEPT ![key] = "task"]
       ELSE UNCHANGED <<session, td, tdBy>>
    /\ UNCHANGED <<callVars, unix, resVars, lock, installed, shPc>>
    /\ UNCHANGED <<pureVars, promptVars>>

\* ssh.rs 856-863: shutdown() spawns a task and returns
shutdown ==
    /\ shPc = "idle"
    /\ shPc' = "spawned"
    /\ UNCHANGED <<callVars, unix, resVars, slotVars>>
    /\ UNCHANGED <<pureVars, promptVars>>

\* ssh.rs 858-861: the spawned task: lock, take(), disconnect_session
ShutdownTake ==
    /\ shPc = "spawned"
    /\ lock = "free"
    /\ IF session = NoSession
       THEN /\ shPc' = "done"
            /\ UNCHANGED <<old, session, lock, td, tdBy>>
       ELSE /\ shPc' = "teardown"
            /\ old' = [old EXCEPT !["shutdown"] = session]
            /\ session' = NoSession
            /\ lock' = "shutdown"
            /\ td' = [td EXCEPT ![session] = "forward"]
            /\ tdBy' = [tdBy EXCEPT ![session] = "shutdown"]
    /\ UNCHANGED <<pc, cur, cmd, steps, nextKey, probeVars, unix, resVars, installed>>
    /\ UNCHANGED <<pureVars, promptVars>>

\* ssh.rs 860-861: disconnect_session has returned; the guard is dropped
ShutdownDone ==
    /\ shPc = "teardown"
    /\ td[old["shutdown"]] = "done"
    /\ shPc' = "done"
    /\ lock' = "free"
    /\ UNCHANGED <<callVars, unix, resVars, session, installed, td, tdBy>>
    /\ UNCHANGED <<pureVars, promptVars>>

-----------------------------------------------------------------------------
(* The askpass listener's handlers (ssh.rs 572-626) and ssh_prompt_reply    *)
(* (ssh.rs 705-717)                                                        *)

\* connections accepted in one run
MaxConns == 2
\* ssh_prompt_reply calls in one run
MaxReplies == 3

Handlers == 1..MaxConns
Ids == 1..MaxConns
\* prompt ids are uuids: the UI can name an id it was sent in an event, or a
\* string that is no id (0)
NoId == 0

Empty == <<>>
ReplyValues == { <<Run(65, 1)>>, <<Run(66, 1)>> }
PromptTexts == { <<Run(65, 1)>>, <<Run(65, MAX_PROMPT_LEN + 1)>> }

\* byte strings joined, the runs that meet merged
ConcatBytes(a, b) ==
    IF a = <<>> THEN b
    ELSE IF b = <<>> THEN a
    ELSE IF a[Len(a)].b = b[1].b
    THEN SubSeq(a, 1, Len(a) - 1) \o <<Run(b[1].b, a[Len(a)].n + b[1].n)>> \o Tail(b)
    ELSE a \o b

Space == <<Run(32, 1)>>
Newline == <<Run(10, 1)>>

\* args.join(" ")
RECURSIVE JoinArgs(_)
JoinArgs(args) ==
    IF args = <<>> THEN <<>>
    ELSE IF Len(args) = 1 THEN Head(args)
    ELSE ConcatBytes(ConcatBytes(Head(args), Space), JoinArgs(Tail(args)))

\* "--ssh-askpass"
SshAskpassFlag ==
    << Run(45, 2), Run(115, 2), Run(104, 1), Run(45, 1), Run(97, 1), Run(115, 1),
       Run(107, 1), Run(112, 1), Run(97, 1), Run(115, 2) >>

\* Iterator::skip(n) of a vector
Skip(args, n) == SubSeq(args, n + 1, Len(args))

\* main.rs 85-94: the prompt the helper sends, from its argv (argv[0] first)
helper_prompt(args) ==
    IF \E i \in 1..Len(args) : args[i] = SshAskpassFlag
    THEN LET pos == (CHOOSE i \in 1..Len(args) :
                        /\ args[i] = SshAskpassFlag
                        /\ \A j \in 1..(i - 1) : args[j] # SshAskpassFlag) - 1 IN
         JoinArgs(Skip(args, pos + 2))
    ELSE JoinArgs(Skip(args, 1))

\* argv[0] of the helper
Exe == <<Run(111, 1)>>

\* ssh runs the helper with the prompt as its only argument; the other
\* invocation passes the prompt after --ssh-askpass
HelperArgs ==
    { <<Exe, t>> : t \in PromptTexts } \cup { <<Exe, SshAskpassFlag, <<Run(65, 1)>>>> }


HGoto(h, label) == hpc' = [hpc EXCEPT ![h] = label]

\* ssh.rs 574-579: the listener of session k accepts the connection of a
\* helper process started with argv args, which has written its prompt
\* (main.rs 85-109)
Accept(h, k, args) ==
    /\ hpc[h] = "idle"
    /\ askpass[k] = "running"
    /\ HGoto(h, "accepted")
    /\ hkey' = [hkey EXCEPT ![h] = k]
    /\ hargs' = [hargs EXCEPT ![h] = args]
    /\ hstream' = [hstream EXCEPT ![h] =
                      helper_write_prompt(<<>>, helper_prompt(args)).stream]
    /\ UNCHANGED hstdout
    /\ UNCHANGED <<prompts, chan, nextId, hid, hprompt, hval, hout, emitted,
                   timedOut, sent, replies, lastReply>>
    /\ UNCHANGED <<pureVars, sessVars>>

\* ssh.rs 580-588: read_prompt; on an error the handler returns; otherwise
\* a fresh id and a oneshot channel
HandlerRead(h) ==
    /\ hpc[h] = "accepted"
    /\ LET r == read_prompt(hstream[h]) IN
       IF r.tag = "ok"
       THEN /\ HGoto(h, "insert")
            /\ hprompt' = [hprompt EXCEPT ![h] = r.value]
            /\ hid' = [hid EXCEPT ![h] = nextId]
            /\ nextId' = nextId + 1
            /\ chan' = [chan EXCEPT ![nextId] = [st |-> "open", v |-> Empty]]
       ELSE /\ HGoto(h, "dropped")
            /\ UNCHANGED <<hprompt, hid, nextId, chan>>
    /\ UNCHANGED <<prompts, hkey, hstream, hval, hout, emitted, timedOut, sent,
                   replies, lastReply>>
    /\ UNCHANGED <<hargs, hstdout>>
    /\ UNCHANGED <<pureVars, sessVars>>

\* the handler going on without having put its sender into the table
HandlerInsertSkipped(h) ==
    /\ hpc[h] = "insert"
    /\ HGoto(h, "emit")
    /\ UNCHANGED <<prompts, chan, nextId, hkey, hid, hstream, hprompt, hval, hout,
                   emitted, timedOut, sent, replies, lastReply>>
    /\ UNCHANGED <<hargs, hstdout>>
    /\ UNCHANGED <<pureVars, sessVars>>

\* ssh.rs 590-593
HandlerInsert(h) ==
    /\ hpc[h] = "insert"
    /\ HGoto(h, "emit")
    /\ prompts' = prompts \cup {hid[h]}
    /\ UNCHANGED <<chan, nextId, hkey, hid, hstream, hprompt, hval, hout, emitted,
                   timedOut, sent, replies, lastReply>>
    /\ UNCHANGED <<hargs, hstdout>>
    /\ UNCHANGED <<pureVars, sessVars>>

\* ssh.rs 595-604
HandlerEmit(h) ==
    /\ hpc[h] = "emit"
    /\ HGoto(h, "wait")
    /\ emitted' = emitted \cup {hid[h]}
    /\ UNCHANGED <<prompts, chan, nextId, hkey, hid, hstream, hprompt, hval, hout,
                   timedOut, sent, replies, lastReply>>
    /\ UNCHANGED <<hargs, hstdout>>
    /\ UNCHANGED <<pureVars, sessVars>>

\* ssh.rs 606-610: the value arrives on the channel
HandlerReceive(h) ==
    /\ hpc[h] = "wait"
    /\ chan[hid[h]].st = "full"
    /\ HGoto(h, "remove")
    /\ hval' = [hval EXCEPT ![h] = chan[hid[h]].v]
    /\ chan' = [chan EXCEPT ![hid[h]].st = "closed"]
    /\ UNCHANGED <<prompts, nextId, hkey, hid, hstream, hprompt, hout, emitted,
                   timedOut, sent, replies, lastReply>>
    /\ UNCHANGED <<hargs, hstdout>>
    /\ UNCHANGED <<pureVars, sessVars>>

\* ssh.rs 606-610: 120 s pass with nothing on the channel; the receiver is
\* dropped and the value is the empty string
HandlerTimeout(h) ==
    /\ hpc[h] = "wait"
    /\ chan[hid[h]].st = "open"
    /\ HGoto(h, "remove")
    /\ hval' = [hval EXCEPT ![h] = Empty]
    /\ chan' = [chan EXCEPT ![hid[h]].st = "closed"]
    /\ timedOut' = timedOut \cup {hid[h]}
    /\ UNCHANGED <<prompts, nextId, hkey, hid, hstream, hprompt, hout, emitted,
                   sent, replies, lastReply>>
    /\ UNCHANGED <<hargs, hstdout>>
    /\ UNCHANGED <<pureVars, sessVars>>

\* the handler going on to the write with its entry left in the table
HandlerRemoveKeepEntry(h) ==
    /\ hpc[h] = "remove"
    /\ HGoto(h, "write")
    /\ UNCHANGED <<prompts, chan, nextId, hkey, hid, hstream, hprompt, hval, hout,
                   emitted, timedOut, sent, replies, lastReply>>
    /\ UNCHANGED <<hargs, hstdout>>
    /\ UNCHANGED <<pureVars, sessVars>>

\* ssh.rs 618-621
HandlerRemove(h) ==
    /\ hpc[h] = "remove"
    /\ HGoto(h, "write")
    /\ prompts' = prompts \ {hid[h]}
    /\ UNCHANGED <<chan, nextId, hkey, hid, hstream, hprompt, hval, hout, emitted,
                   timedOut, sent, replies, lastReply>>
    /\ UNCHANGED <<hargs, hstdout>>
    /\ UNCHANGED <<pureVars, sessVars>>

\* ssh.rs 623
HandlerWrite(h) ==
    /\ hpc[h] = "write"
    /\ HGoto(h, "done")
    /\ hout' = [hout EXCEPT ![h] = write_reply(hout[h], hval[h]).stream]
    /\ UNCHANGED <<prompts, chan, nextId, hkey, hid, hstream, hprompt, hval,
                   emitted, timedOut, sent, replies, lastReply>>
    /\ UNCHANGED <<hargs, hstdout>>
    /\ UNCHANGED <<pureVars, sessVars>>

\* main.rs 111-125: the helper reads the reply and prints it with a newline;
\* if the handler gave up without a reply the read fails and it exits with 1
HelperFinish(h) ==
    /\ hpc[h] \in {"done", "dropped"}
    /\ HGoto(h, "exited")
    /\ LET reply == helper_read_reply(hout[h]) IN
       hstdout' = [hstdout EXCEPT ![h] =
                      IF hpc[h] = "done" /\ reply.tag = "ok"
                      THEN ConcatBytes(reply.value, Newline)
                      ELSE <<>>]
    /\ UNCHANGED <<prompts, chan, nextId, hkey, hid, hstream, hprompt, hval, hout,
                   hargs, emitted, timedOut, sent, replies, lastReply>>
    /\ UNCHANGED <<pureVars, sessVars>>

\* the send on an open or full channel: Some(tx), Ok
CanSend(id) == id \in prompts /\ chan[id].st \in {"open", "full"}

\* ssh_prompt_reply looking the sender up without removing the entry
ssh_prompt_reply_KeepEntry(id, value) ==
    /\ replies < MaxReplies
    /\ replies' = replies + 1
    /\ lastReply' = [id |-> id, value |-> value, found |-> id \in prompts]
    /\ IF CanSend(id)
       THEN /\ chan' = [chan EXCEPT ![id] = [st |-> "full", v |-> value]]
            /\ sent' = [sent EXCEPT ![id] = Append(@, value)]
       ELSE UNCHANGED <<chan, sent>>
    /\ UNCHANGED <<prompts, nextId, handlerVars, emitted, timedOut>>
    /\ UNCHANGED <<pureVars, sessVars>>

\* ssh.rs 705-717: remove the entry, then send on its sender; the send fails
\* (and is ignored) when the receiver has been dropped
ssh_prompt_reply(id, value) ==
    /\ replies < MaxReplies
    /\ replies' = replies + 1
    /\ lastReply' = [id |-> id, value |-> value, found |-> id \in prompts]
    /\ prompts' = prompts \ {id}
    /\ IF id \in prompts /\ chan[id].st = "open"
       THEN /\ chan' = [chan EXCEPT ![id] = [st |-> "full", v |-> value]]
            /\ sent' = [sent EXCEPT ![id] = Append(@, value)]
       ELSE UNCHANGED <<chan, sent>>
    /\ UNCHANGED <<nextId, handlerVars, emitted, timedOut>>
    /\ UNCHANGED <<pureVars, sessVars>>

-----------------------------------------------------------------------------
(* spawn_remote_server: port discovery (ssh.rs 444-470)                    *)

\* lines on the remote server's stdout in one run
MaxLines == 3

\* ssh.rs 444: mpsc::channel::<u16>(1)
PORT_CHANNEL_CAPACITY == 1

\* a line whose bytes are not UTF-8: next_line() returns Err
InvalidUtf8 == << "\\xFF" >>

StreamLines ==
    { Needle \o <<"h", ":", "7">>,
      Needle \o <<"h", ":", "8">>,
      <<"t", " ">> \o Needle \o <<"h", ":", "9">>,
      <<"e">>,
      InvalidUtf8 }

Streams == UNION {[1..n -> StreamLines] : n \in 0..MaxLines}

\* mpsc::Sender::try_send: the buffer afterwards
TrySend(port) ==
    IF rxOpen /\ Len(portChan) < PORT_CHANNEL_CAPACITY
    THEN Append(portChan, port)
    ELSE portChan

\* ssh.rs 445-455: one turn of the reader task's loop
ReaderNext ==
    /\ rdPc = "reading"
    /\ IF rdPos = Len(lines)
       THEN /\ rdPc' = "eof"
            /\ UNCHANGED <<rdPos, portChan>>
       ELSE IF lines[rdPos + 1] = InvalidUtf8
       THEN /\ rdPc' = "failed"
            /\ UNCHANGED <<rdPos, portChan>>
       ELSE /\ rdPos' = rdPos + 1
            /\ LET port == parse_listening_port(lines[rdPos + 1]) IN
               portChan' = IF port.some THEN TrySend(port.v) ELSE portChan
            /\ UNCHANGED rdPc
    /\ UNCHANGED <<lines, rxOpen, rxPc, remotePort>>
    /\ UNCHANGED <<parserVars, envVars, lineVars, mainVars, quoteVars, sessVars, promptVars>>

\* ssh.rs 465-468: rx.recv() returns a port, or None once the sender is gone
PortRecv ==
    /\ rxPc = "recv"
    /\ IF portChan # <<>>
       THEN /\ remotePort' = Head(portChan)
            /\ portChan' = Tail(portChan)
            /\ rxPc' = "got"
            /\ UNCHANGED rxOpen
       ELSE /\ rdPc \in {"eof", "failed"}
            /\ rxPc' = "err"
            /\ rxOpen' = FALSE
            /\ UNCHANGED <<remotePort, portChan>>
    /\ UNCHANGED <<lines, rdPos, rdPc>>
    /\ UNCHANGED <<parserVars, envVars, lineVars, mainVars, quoteVars, sessVars, promptVars>>

\* ssh.rs 465-467: 30 s pass with nothing in the channel
PortTimeout ==
    /\ rxPc = "recv"
    /\ portChan = <<>>
    /\ rxPc' = "err"
    /\ rxOpen' = FALSE
    /\ UNCHANGED <<lines, rdPos, rdPc, portChan, remotePort>>
    /\ UNCHANGED <<parserVars, envVars, lineVars, mainVars, quoteVars, sessVars, promptVars>>

\* ssh.rs 470: Ok((child, port)); the receiver is dropped
PortReturn ==
    /\ rxPc = "got"
    /\ rxPc' = "ok"
    /\ rxOpen' = FALSE
    /\ UNCHANGED <<lines, rdPos, rdPc, portChan, remotePort>>
    /\ UNCHANGED <<parserVars, envVars, lineVars, mainVars, quoteVars, sessVars, promptVars>>

-----------------------------------------------------------------------------
(* main(): startup (main.rs 80-153)                                        *)

\* main.rs 81: the helper role returns before anything else is touched
MainEnter ==
    /\ mainPc = "start"
    /\ mainPc' = IF helperMode THEN "helper" ELSE "upper"
    /\ UNCHANGED <<helperMode, noProxy, noProxy0>>
    /\ UNCHANGED <<parserVars, envVars, lineVars, portVars, quoteVars, sessVars, promptVars>>

\* main.rs 132-153: upsert("NO_PROXY"), then upsert("no_proxy")
upsert(key) ==
    /\ mainPc = (IF key = "NO_PROXY" THEN "upper" ELSE "lower")
    /\ mainPc' = (IF key = "NO_PROXY" THEN "lower" ELSE "run")
    /\ noProxy' = [noProxy EXCEPT ![key] = Some(UpsertValue(noProxy[key]))]
    /\ UNCHANGED <<helperMode, noProxy0>>
    /\ UNCHANGED <<parserVars, envVars, lineVars, portVars, quoteVars, sessVars, promptVars>>

-----------------------------------------------------------------------------
(* Harnesses of the pure functions                                         *)

Parse ==
    /\ pOut = NotRun
    /\ pOut' = parse_ssh_command(pIn)
    /\ UNCHANGED <<pIn, envVars, lineVars, portVars, mainVars, quoteVars, sessVars, promptVars>>

\* ssh.rs 350: the call of sh_quote
QuoteCall ==
    /\ qOut = NotRun
    /\ qOut' = sh_quote(qIn)
    /\ UNCHANGED <<qIn, parserVars, envVars, lineVars, portVars, mainVars, sessVars,
                   promptVars>>

ParseLine ==
    /\ plOut = NotRun
    /\ plOut' = parse_listening_port(plIn)
    /\ UNCHANGED <<plIn, parserVars, envVars, portVars, mainVars, quoteVars, sessVars, promptVars>>

EnvWrite ==
    /\ envPc = "start"
    /\ LET w == IF envDir = "reply" THEN write_reply(<<>>, envIn)
                ELSE helper_write_prompt(<<>>, envIn) IN
       /\ envWrote' = w.ok
       /\ envStream' = w.stream
    /\ envPc' = "written"
    /\ UNCHANGED <<envDir, envIn, envOut, parserVars, lineVars, portVars, mainVars,
                   quoteVars, sessVars, promptVars>>

EnvRead ==
    /\ envPc = "written"
    /\ envOut' = IF envDir = "reply" THEN helper_read_reply(envStream)
                 ELSE read_prompt(envStream)
    /\ envPc' = "read"
    /\ UNCHANGED <<envDir, envIn, envStream, envWrote, parserVars, lineVars,
                   portVars, mainVars, quoteVars, sessVars, promptVars>>

-----------------------------------------------------------------------------
(* Initial states                                                          *)

ParserIdle == pIn = <<>> /\ pOut = NotRun

EnvIdle ==
    /\ envDir = "prompt" /\ envIn = <<>> /\ envPc = "start"
    /\ envStream = <<>> /\ envWrote = NotRun /\ envOut = NotRun

LineIdle == plIn = <<>> /\ plOut = NotRun

PortIdle ==
    /\ lines = <<>> /\ rdPos = 0 /\ rdPc = "reading"
    /\ portChan = <<>> /\ rxOpen = TRUE /\ rxPc = "recv" /\ remotePort = 0

\* the application has started: both variables hold the loopback hosts
MainIdle ==
    /\ helperMode = FALSE /\ mainPc = "run"
    /\ noProxy0 = [k \in {"NO_PROXY", "no_proxy"} |-> NoneOpt]
    /\ noProxy = [k \in {"NO_PROXY", "no_proxy"} |-> Some(UpsertValue(NoneOpt))]

QuoteIdle == qIn = <<>> /\ qOut = NotRun

PureIdle == ParserIdle /\ EnvIdle /\ LineIdle /\ PortIdle /\ MainIdle /\ QuoteIdle

\* SshState::default(): no session, and no ssh_connect call yet
SessionInit ==
    /\ unix \in BOOLEAN
    /\ session = NoSession
    /\ lock = "free"
    /\ nextKey = 1
    /\ pc = [p \in Callers |-> "idle"]
    /\ cur = [p \in Callers |-> NoSession]
    /\ cmd = [p \in Callers |-> <<>>]
    /\ steps = [p \in Callers |-> <<>>]
    /\ sshV = [p \in Callers |-> "none"]
    /\ remoteVer = [p \in Callers |-> NotRun]
    /\ installer = [p \in Callers |-> "none"]
    /\ old = [p \in Callers \cup {"shutdown"} |-> NoSession]
    /\ dir = [k \in Keys |-> FALSE]
    /\ madeDir = [k \in Keys |-> FALSE]
    /\ askpass = [k \in Keys |-> "none"]
    /\ child = [k \in Keys |-> NoChildren]
    /\ health = [k \in Keys |-> FALSE]
    /\ installed = {}
    /\ td = [k \in Keys |-> "none"]
    /\ tdBy = [k \in Keys |-> "none"]
    /\ shPc = "idle"

\* the state in which the first ssh_connect call has returned Ok: its session
\* (key 1) is in the slot and its listener is running
SessionConnected ==
    /\ unix \in BOOLEAN
    /\ session = 1
    /\ lock = "free"
    /\ nextKey = 2
    /\ pc = [p \in Callers |-> "idle"]
    /\ cur = [p \in Callers |-> NoSession]
    /\ cmd = [p \in Callers |-> <<>>]
    /\ steps = [p \in Callers |-> <<>>]
    /\ sshV = [p \in Callers |-> "none"]
    /\ remoteVer = [p \in Callers |-> NotRun]
    /\ installer = [p \in Callers |-> "none"]
    /\ old = [p \in Callers \cup {"shutdown"} |-> NoSession]
    /\ dir = [k \in Keys |-> k = 1]
    /\ madeDir = [k \in Keys |-> k = 1]
    /\ askpass = [k \in Keys |-> IF k = 1 THEN "running" ELSE "none"]
    /\ child = [k \in Keys |->
                  IF k = 1
                  THEN [master |-> IF unix THEN "alive" ELSE "none",
                        server |-> "alive", forward |-> "alive"]
                  ELSE NoChildren]
    /\ health = [k \in Keys |-> k = 1]
    /\ installed = {1}
    /\ td = [k \in Keys |-> "none"]
    /\ tdBy = [k \in Keys |-> "none"]
    /\ shPc = "idle"

PromptIdle ==
    /\ prompts = {}
    /\ chan = [i \in Ids |-> [st |-> "none", v |-> Empty]]
    /\ nextId = 1
    /\ hpc = [h \in Handlers |-> "idle"]
    /\ hkey = [h \in Handlers |-> NoSession]
    /\ hid = [h \in Handlers |-> NoId]
    /\ hstream = [h \in Handlers |-> <<>>]
    /\ hprompt = [h \in Handlers |-> Empty]
    /\ hval = [h \in Handlers |-> Empty]
    /\ hout = [h \in Handlers |-> <<>>]
    /\ hargs = [h \in Handlers |-> <<>>]
    /\ hstdout = [h \in Handlers |-> <<>>]
    /\ emitted = {}
    /\ timedOut = {}
    /\ sent = [i \in Ids |-> <<>>]
    /\ replies = 0
    /\ lastReply = [id |-> NoId, value |-> Empty, found |-> FALSE]

-----------------------------------------------------------------------------
(* Specifications                                                          *)

Init == SessionInit /\ PromptIdle /\ PureIdle

ConnectStep(p) ==
    \/ \E command \in ConnectCommands : ConnectCall(p, command)
    \/ \E status \in {"spawn_failed", "exit_nonzero", "exit_zero"} :
          ensure_ssh_available(p, status)
    \/ ParseCommand(p)
    \/ TakeSlot(p)
    \/ TakeSlotDone(p)
    \/ \E ok \in BOOLEAN : CreateDir(p, ok)
    \/ \E outcome \in {"bind_failed", "exe_path_failed", "ok"} :
          spawn_askpass_server(p, outcome)
    \/ \E ok \in BOOLEAN : spawn_master(p, ok)
    \/ \E ok \in BOOLEAN : wait_master_ready(p, ok)
    \/ \E res \in VersionQueryResults : RemoteVersion(p, res)
    \/ \E ok \in BOOLEAN : RemoteInstall(p, ok)
    \/ \E ok \in BOOLEAN : spawn_remote_server(p, ok)
    \/ \E ok \in BOOLEAN : AwaitPort(p, ok)
    \/ \E ok \in BOOLEAN : spawn_forward(p, ok)
    \/ \E ok \in BOOLEAN : HealthPoll(p, ok)
    \/ InstallSession(p)
    \/ ConnectReturn(p)

Teardown == \E k \in Keys : disconnect_session(k)

SessionNext ==
    \/ \E p \in Callers : ConnectStep(p)
    \/ \E key \in KeyArgs : ssh_disconnect(key)
    \/ Teardown
    \/ shutdown
    \/ ShutdownTake
    \/ ShutdownDone

Next == SessionNext

Spec == Init /\ [][Next]_vars

\* the scheduler runs every spawned task: a teardown that has started goes on
FairSpec == Spec /\ \A k \in Keys : WF_vars(disconnect_session(k))

\* The steps of a connect that end by themselves: those that wait for nothing
\* outside the application (the parse, the slot, create_dir_all, the bind,
\* the spawns), those whose wait is inside a 30 s timeout (the port, the
\* health poll), and those that run a local ssh command which opens no
\* connection (`ssh -V`, and `ssh -O check` inside the 30 s loop of
\* wait_master_ready); the parse is one more, its fairness is stated apart.
\* The version query and the installer are awaited by ssh_output with no
\* timeout (ssh.rs 236-240): they end only if the remote command does.
BoundedStep(p) ==
    \/ \E status \in {"spawn_failed", "exit_nonzero", "exit_zero"} :
          ensure_ssh_available(p, status)
    \/ TakeSlot(p)
    \/ TakeSlotDone(p)
    \/ \E ok \in BOOLEAN : CreateDir(p, ok)
    \/ \E outcome \in {"bind_failed", "exe_path_failed", "ok"} :
          spawn_askpass_server(p, outcome)
    \/ \E ok \in BOOLEAN : spawn_master(p, ok)
    \/ \E ok \in BOOLEAN : wait_master_ready(p, ok)
    \/ \E ok \in BOOLEAN : spawn_remote_server(p, ok)
    \/ \E ok \in BOOLEAN : AwaitPort(p, ok)
    \/ \E ok \in BOOLEAN : spawn_forward(p, ok)
    \/ \E ok \in BOOLEAN : HealthPoll(p, ok)
    \/ InstallSession(p)

\* The scheduler runs every task that can run and every timeout fires; a
\* killed child exits. ParseCommand(p) is enabled exactly while pc[p] is
\* "parse" and every ParseCommand(p) step leaves that label, so its weak
\* fairness, WF_vars(ParseCommand(p)), is the formula []<>(pc[p] # "parse").
ConnectFairSpec ==
    /\ Spec
    /\ \A p \in Callers : WF_vars(BoundedStep(p))
    /\ \A p \in Callers : []<>(pc[p] # "parse")
    /\ \A k \in Keys : WF_vars(disconnect_session(k))
    /\ WF_vars(ShutdownTake)
    /\ WF_vars(ShutdownDone)

PromptInit == SessionConnected /\ PromptIdle /\ PureIdle

HandlerStep(h) ==
    \/ \E k \in Keys, args \in HelperArgs : Accept(h, k, args)
    \/ HandlerRead(h)
    \/ HandlerInsert(h)
    \/ HandlerEmit(h)
    \/ HandlerReceive(h)
    \/ HandlerTimeout(h)
    \/ HandlerRemove(h)
    \/ HandlerWrite(h)
    \/ HelperFinish(h)

PromptNext ==
    \/ \E h \in Handlers : HandlerStep(h)
    \/ \E id \in emitted \cup {NoId}, value \in ReplyValues :
          ssh_prompt_reply(id, value)
    \/ \E key \in KeyArgs : ssh_disconnect(key)
    \/ Teardown

PromptSpec == PromptInit /\ [][PromptNext]_vars

\* ssh starts the helper with the prompt as its only argument
SshHelperArgs == { <<Exe, t>> : t \in PromptTexts }

\* the handlers and the replies of the UI, while the session is torn down
PromptFairNext ==
    \/ \E h \in Handlers :
          \/ \E k \in Keys, args \in SshHelperArgs : Accept(h, k, args)
          \/ HandlerRead(h)
          \/ HandlerInsert(h)
          \/ HandlerEmit(h)
          \/ HandlerReceive(h)
          \/ HandlerTimeout(h)
          \/ HandlerRemove(h)
          \/ HandlerWrite(h)
    \/ \E id \in emitted \cup {NoId}, value \in ReplyValues :
          ssh_prompt_reply(id, value)
    \/ \E key \in KeyArgs : ssh_disconnect(key)
    \/ Teardown

\* the steps of a handler after its read
HandlerProgress(h) ==
    \/ HandlerInsert(h)
    \/ HandlerEmit(h)
    \/ HandlerReceive(h)
    \/ HandlerTimeout(h)
    \/ HandlerRemove(h)
    \/ HandlerWrite(h)

\* The runtime runs every handler task that can run, and the 120 s of its
\* timeout pass. HandlerRead(h) is enabled exactly while hpc[h] is "accepted"
\* and every HandlerRead(h) step leaves that label, so its weak fairness,
\* WF_vars(HandlerRead(h)), is the formula []<>(hpc[h] # "accepted").
PromptFairSpec ==
    /\ PromptInit /\ [][PromptFairNext]_vars
    /\ \A h \in Handlers : WF_vars(HandlerProgress(h))
    /\ \A h \in Handlers : []<>(hpc[h] # "accepted")

ParserInit ==
    /\ pIn \in ParserInputs /\ pOut = NotRun
    /\ SessionInit /\ unix /\ PromptIdle /\ EnvIdle /\ LineIdle /\ PortIdle /\ MainIdle
    /\ QuoteIdle

ParserSpec == ParserInit /\ [][Parse]_vars

EnvelopeInit ==
    /\ envDir \in {"prompt", "reply"} /\ envIn \in EnvStrings /\ envPc = "start"
    /\ envStream = <<>> /\ envWrote = NotRun /\ envOut = NotRun
    /\ SessionInit /\ unix /\ PromptIdle /\ ParserIdle /\ LineIdle /\ PortIdle
    /\ MainIdle /\ QuoteIdle

EnvelopeNext == EnvWrite \/ EnvRead

EnvelopeSpec == EnvelopeInit /\ [][EnvelopeNext]_vars

LineInit ==
    /\ plIn \in LineInputs /\ plOut = NotRun
    /\ SessionInit /\ unix /\ PromptIdle /\ ParserIdle /\ EnvIdle /\ PortIdle
    /\ MainIdle /\ QuoteIdle

LineSpec == LineInit /\ [][ParseLine]_vars

PortInit ==
    /\ lines \in Streams /\ rdPos = 0 /\ rdPc = "reading"
    /\ portChan = <<>> /\ rxOpen = TRUE /\ rxPc = "recv" /\ remotePort = 0
    /\ SessionInit /\ unix /\ PromptIdle /\ ParserIdle /\ EnvIdle /\ LineIdle
    /\ MainIdle /\ QuoteIdle

PortNext == ReaderNext \/ PortRecv \/ PortTimeout \/ PortReturn

PortSpec == PortInit /\ [][PortNext]_vars

MainInit ==
    /\ helperMode \in BOOLEAN /\ mainPc = "start"
    /\ noProxy0 \in [{"NO_PROXY", "no_proxy"} -> ProxyValues]
    /\ noProxy = noProxy0
    /\ SessionInit /\ unix /\ PromptIdle /\ ParserIdle /\ EnvIdle /\ LineIdle
    /\ PortIdle /\ QuoteIdle

MainNext == MainEnter \/ \E key \in {"NO_PROXY", "no_proxy"} : upsert(key)

MainSpec == MainInit /\ [][MainNext]_vars

QuoteInit ==
    /\ qIn \in QuoteInputs /\ qOut = NotRun
    /\ SessionInit /\ unix /\ PromptIdle /\ ParserIdle /\ EnvIdle /\ LineIdle
    /\ PortIdle /\ MainIdle

QuoteSpec == QuoteInit /\ [][QuoteCall]_vars

-----------------------------------------------------------------------------
(* Properties of the session orchestrator                                  *)

AnyChildAlive(k) ==
    child[k].master = "alive" \/ child[k].server = "alive" \/ child[k].forward = "alive"

\* the resources that make up one SshSession are all there
SessionExists(k) ==
    /\ dir[k]
    /\ askpass[k] = "running"
    /\ child[k].server = "alive"
    /\ child[k].forward = "alive"

\* ssh_connect of caller p has returned an error after create_dir_all succeeded
FailedAfterDir(p) == pc[p] = "err" /\ cur[p] # NoSession /\ madeDir[cur[p]]

\* C1: all-or-nothing connect. Whenever ssh_connect has returned an error
\* after its session directory was created, none of the children that call
\* started is alive, its askpass listener is not running, and its directory
\* does not exist.
C1_AllOrNothing ==
    \A p \in Callers :
        FailedAfterDir(p) =>
            /\ ~AnyChildAlive(cur[p])
            /\ askpass[cur[p]] # "running"
            /\ ~dir[cur[p]]

\* C2: exclusive session. At most one session (live server and forward
\* children, running askpass listener, directory) exists at any time, and a
\* connect that found a session in the slot has torn it down completely
\* before it creates anything of its own.
C2_ExclusiveSession ==
    /\ Cardinality({k \in Keys : SessionExists(k)}) <= 1
    /\ \A p \in Callers :
           (old[p] # NoSession /\ pc[p] \notin {"teardown", "idle"})
               => td[old[p]] = "done"

\* C3: a session is published only after a successful health check. The
\* session in the slot has had check_health return true, its server and
\* forward (and, with multiplexing, its master) were spawned, and a connect
\* that has returned Ok has put its session into the slot.
C3_PublishedAfterHealth ==
    /\ session # NoSession =>
           /\ health[session]
           /\ child[session].server # "none"
           /\ child[session].forward # "none"
           /\ unix => child[session].master # "none"
    /\ \A p \in Callers : pc[p] = "ok" => cur[p] \in installed

\* a connect has just returned Ok with its session in the slot
C3_Witness ==
    \E p \in Callers : pc[p] = "ok" /\ session = cur[p] /\ health[cur[p]]

\* the teardown of session k has run to its end
TornDown(k) ==
    /\ td[k] = "done"
    /\ ~AnyChildAlive(k)
    /\ askpass[k] = "aborted"
    /\ ~dir[k]

\* C6: ssh_disconnect(key) removes the session iff its key matches. With an
\* empty slot or another key nothing changes; with the matching key the slot
\* is empty after the call, nothing else has changed yet, the teardown of
\* that session is scheduled, it starts only this once, and it eventually
\* completes.
C6_DisconnectIffKeyMatches ==
    /\ [][\A key \in KeyArgs :
             ssh_disconnect(key) =>
                 IF session # NoSession /\ session = key
                 THEN /\ session' = NoSession
                      /\ td[key] = "none" /\ td'[key] = "forward"
                      /\ tdBy'[key] = "task"
                      /\ UNCHANGED <<resVars, callVars, lock, installed>>
                 ELSE UNCHANGED sessVars]_vars
    /\ [][\A k \in Keys : td[k] # "none" => td'[k] # "none" /\ tdBy'[k] = tdBy[k]]_vars
    /\ [][\A k \in Keys : (td'[k] = "forward" /\ td[k] # "forward") => td[k] = "none"]_vars
    /\ \A k \in Keys : (tdBy[k] = "task") ~> TornDown(k)

\* ssh_disconnect has removed a session and its teardown has completed
C6_Witness ==
    \E k \in Keys : tdBy[k] = "task" /\ TornDown(k) /\ session = NoSession

-----------------------------------------------------------------------------
(* Properties of the prompt table                                          *)

\* what ssh_prompt_reply can change besides its own call record
replyEffectVars == <<prompts, chan, sent, nextId, handlerVars, emitted, timedOut>>

\* a handler has chosen its reply value
HasValue(h) ==
    hpc[h] \in {"remove", "write", "done"} \/ (hpc[h] = "exited" /\ hid[h] # NoId)

\* at most one value is ever put on the channel of an id, and a handler's
\* value is the empty string or the one value sent for its own id
DeliveredToOwner ==
    /\ \A id \in Ids : Len(sent[id]) <= 1
    /\ \A h \in Handlers :
           HasValue(h) => hval[h] = Empty \/ sent[hid[h]] = <<hval[h]>>
    /\ \A h \in Handlers :
           hpc[h] = "done" => hout[h] = ToBeBytes(ByteLen(hval[h])) \o hval[h]

\* C4 as stated: at most one reply per id is consumed and it reaches only
\* the handler of that id; a reply whose id was already answered, has timed
\* out, or was never issued changes no state.
C4_PromptCorrelationAsStated ==
    /\ []DeliveredToOwner
    /\ [][replies' = replies + 1 =>
             LET id == lastReply'.id IN
             (id = NoId \/ id \in timedOut \/ sent[id] # <<>>)
                 => UNCHANGED replyEffectVars]_vars

\* C4 (amended): at most one reply per id is consumed and it reaches only the
\* handler of that id; a reply whose id has no entry in the table (already
\* answered, removed after the timeout, or never issued) changes no state; a
\* reply that arrives after the timeout fired but before the handler removed
\* the entry removes the entry and its value is discarded.
C4_PromptCorrelation ==
    /\ []DeliveredToOwner
    /\ [][replies' = replies + 1 =>
             LET id == lastReply'.id IN
             /\ id \notin prompts => UNCHANGED replyEffectVars
             /\ (id \in prompts /\ id \in timedOut) =>
                    /\ prompts' = prompts \ {id}
                    /\ UNCHANGED <<chan, sent, nextId, handlerVars, emitted, timedOut>>]_vars

\* a handler holds the value of a reply, a second reply for the same id was
\* dropped, and a reply for an id that had timed out has found its entry
C4_Witness ==
    /\ \E h \in Handlers : HasValue(h) /\ hval[h] # Empty /\ sent[hid[h]] = <<hval[h]>>
    /\ replies >= 2
    /\ lastReply.id \in timedOut /\ lastReply.found

\* C5: the entry of an id is in the table before its ssh_prompt event is
\* emitted, and from the emission until a reply for the id is consumed or
\* its timeout fires the table has an entry for the id.
C5_PromptTable ==
    \A h \in Handlers :
        /\ hpc[h] = "emit" => hid[h] \in prompts
        /\ (hid[h] \in emitted /\ sent[hid[h]] = <<>> /\ hid[h] \notin timedOut)
               => hid[h] \in prompts

\* a prompt is waiting for its reply, with its entry in the table, while the
\* listener that accepted it has been aborted by a teardown
C5_Witness ==
    \E h \in Handlers :
        /\ hpc[h] = "wait" /\ hid[h] \in emitted /\ hid[h] \in prompts
        /\ askpass[hkey[h]] = "aborted"

-----------------------------------------------------------------------------
(* Properties of parse_ssh_command                                         *)

\* the allowlist as the specification gives it (section 4.3)
NoValueFlags ==
    { <<"-", c>> : c \in {"4", "6", "A", "a", "C", "K", "k", "X", "x", "Y", "y"} }
ValueFlags ==
    { <<"-", c>> : c \in {"B", "b", "c", "D", "F", "I", "i", "J", "l", "m", "o",
                          "P", "p", "w"} }

BeginsForward(tok) == StartsWith(tok, <<"-", "L">>) \/ StartsWith(tok, <<"-", "R">>)

\* every token of args in flag position is an allowed no-value flag, an
\* allowed value flag followed by its value, or an allowed value flag with
\* its value attached
RECURSIVE FlagsAllowed(_)
FlagsAllowed(args) ==
    IF args = <<>> THEN TRUE
    ELSE IF Head(args) \in NoValueFlags THEN FlagsAllowed(Tail(args))
    ELSE IF Head(args) \in ValueFlags
         THEN Len(args) >= 2 /\ FlagsAllowed(Tail(Tail(args)))
    ELSE /\ \E f \in ValueFlags : StartsWith(Head(args), f)
         /\ FlagsAllowed(Tail(args))

\* the tokens parse_ssh_command walks over
InputTokens == ShellSplit(StripPrefixOr(Trim(pIn), SshPrefix))

Parsed == pOut # NotRun

\* C7 as stated: parse_ssh_command returns an error or a Spec and never
\* panics; a returned Spec has one destination, every flag token of args is
\* allowlisted, and no token of args begins with -L or -R.
C7_ParserTotalityAsStated ==
    Parsed =>
        /\ pOut.tag \in {"ok", "err"}
        /\ pOut.tag = "ok" =>
               /\ \E i \in 1..Len(InputTokens.tokens) :
                      InputTokens.tokens[i] = pOut.destination
               /\ FlagsAllowed(pOut.args)
               /\ \A i \in 1..Len(pOut.args) : ~BeginsForward(pOut.args[i])

\* C7 (amended): parse_ssh_command returns an error or a Spec and never
\* panics; a returned Spec has one destination and every flag token of args
\* is allowlisted; a token of args that begins with -L or -R is never in
\* flag position: it is the value consumed by the separated value flag
\* right before it.
C7_ParserTotality ==
    Parsed =>
        /\ pOut.tag \in {"ok", "err"}
        /\ pOut.tag = "ok" =>
               /\ \E i \in 1..Len(InputTokens.tokens) :
                      InputTokens.tokens[i] = pOut.destination
               /\ FlagsAllowed(pOut.args)
               /\ \A i \in 1..Len(pOut.args) :
                      BeginsForward(pOut.args[i])
                          => i > 1 /\ pOut.args[i - 1] \in ValueFlags

\* a Spec was returned whose args hold a value flag and, as its value, a
\* token that begins with -L
C7_Witness ==
    /\ Parsed /\ pOut.tag = "ok"
    /\ \E i \in 1..Len(pOut.args) : BeginsForward(pOut.args[i])

\* the index of the first token that is neither a flag nor the value of a
\* separated value flag, 0 if there is none
RECURSIVE FirstOperand(_, _)
FirstOperand(tokens, i) ==
    IF i > Len(tokens) THEN 0
    ELSE IF tokens[i] \in ValueFlags THEN FirstOperand(tokens, i + 2)
    ELSE IF StartsWith(tokens[i], <<"-">>) THEN FirstOperand(tokens, i + 1)
    ELSE i

\* C8: parse_ssh_command succeeds only when the destination is the last
\* token, args is then exactly the tokens before it in input order, and an
\* input with a token after its first non-flag token is rejected.
C8_ParserShape ==
    Parsed =>
        LET tokens == InputTokens.tokens
            n == Len(tokens)
            d == FirstOperand(tokens, 1) IN
        /\ pOut.tag = "ok" =>
               /\ InputTokens.ok /\ n >= 1 /\ d = n
               /\ pOut.destination = tokens[n]
               /\ pOut.args = SubSeq(tokens, 1, n - 1)
        /\ (InputTokens.ok /\ d >= 1 /\ d < n) => pOut.tag = "err"

\* a Spec was returned for an input with a separated value flag, its value,
\* and a destination
C8_Witness ==
    /\ Parsed /\ pOut.tag = "ok"
    /\ Len(pOut.args) >= 2 /\ pOut.args[1] \in ValueFlags

-----------------------------------------------------------------------------
(* Properties of the askpass envelope                                      *)

\* C9: for a UTF-8 string of at most 65536 bytes, writing it as an envelope
\* and reading the envelope back yields the string, in both directions.
C9_EnvelopeRoundTrip ==
    (envPc = "read" /\ ByteLen(envIn) <= MAX_PROMPT_LEN)
        => envWrote = TRUE /\ envOut = EnvOk(envIn)

\* a string of exactly 65536 bytes has been written and read back
C9_Witness ==
    envPc = "read" /\ ByteLen(envIn) = MAX_PROMPT_LEN /\ envOut = EnvOk(envIn)

\* C10: writing an envelope whose payload is longer than 65536 bytes is
\* rejected: the writer returns an error and puts no byte on the stream.
C10_OversizeWriteRejected ==
    (envPc # "start" /\ ByteLen(envIn) > MAX_PROMPT_LEN)
        => envWrote = FALSE /\ envStream = <<>>

-----------------------------------------------------------------------------
(* Properties of port discovery                                            *)

\* the positions at which sub occurs in s
Occurrences(s, sub) ==
    { i \in 1..(Len(s) - Len(sub) + 1) : SubSeq(s, i, i + Len(sub) - 1) = sub }

Contains(s, sub) == Occurrences(s, sub) # {}

\* the text after the first occurrence of the needle
AfterNeedle(line) ==
    LET i == CHOOSE i \in Occurrences(line, Needle) :
                 \A j \in Occurrences(line, Needle) : i <= j IN
    SubSeq(line, i + Len(Needle), Len(line))

\* the first whitespace-delimited token following the needle
AnnouncedToken(line) == FirstWord(AfterNeedle(line))

IsPortText(t) ==
    /\ t # <<>>
    /\ \A i \in 1..Len(t) : t[i] \in Digits
    /\ DecValue(t, 0) <= U16_MAX

\* the line contains `opencode server listening on http://<host>:<port>`
Announces(line) ==
    /\ Contains(line, Needle)
    /\ AnnouncedToken(line).some
    /\ Contains(AnnouncedToken(line).v, <<":">>)
    /\ IsPortText(AfterLast(AnnouncedToken(line).v, ":"))

AnnouncedPort(line) == DecValue(AfterLast(AnnouncedToken(line).v, ":"), 0)

\* C12: parse_listening_port returns Some(port) for every line that contains
\* the announcement, port being the number after the final ':' of the first
\* token following the needle, and None for every line without the needle.
C12_AnnouncementAnywhere ==
    plOut # NotRun =>
        /\ Announces(plIn) => plOut = Some(AnnouncedPort(plIn))
        /\ ~Contains(plIn, Needle) => plOut = NoneOpt

AnnouncingLines == { i \in 1..Len(lines) : Announces(lines[i]) }

FirstAnnouncedPort ==
    AnnouncedPort(lines[CHOOSE i \in AnnouncingLines :
                            \A j \in AnnouncingLines : i <= j])

\* C11: whatever the interleaving of the reader and the receive, the port
\* spawn_remote_server returns is the port of the first announcing line of
\* the stream, and the reader's loop ends only at the end of the stream.
C11_FirstAnnouncementOnly ==
    AnnouncingLines # {} =>
        /\ rxPc \in {"got", "ok"} => remotePort = FirstAnnouncedPort
        /\ (rdPc # "reading" /\ \E i \in AnnouncingLines : i <= rdPos)
               => rdPos = Len(lines)

-----------------------------------------------------------------------------
(* Properties of the startup environment                                   *)

ProxyKeys == {"NO_PROXY", "no_proxy"}

Lowered(a) == [i \in 1..Len(a) |-> ToAsciiLower(a[i])]

SameIgnoringCase(a, b) == Lowered(a) = Lowered(b)

\* the non-empty entries of a variable's value
EntriesOf(v) == ProxyItems(VarOrDefault(v))

IsPrefixOf(a, b) == Len(a) <= Len(b) /\ SubSeq(b, 1, Len(a)) = a

HasLoopbackHosts(entries) ==
    \A h \in 1..Len(LOOPBACK) :
        \E i \in 1..Len(entries) : SameIgnoringCase(entries[i], LOOPBACK[h])

\* the entries of after that follow the entries of before
AddedEntries(before, after) == SubSeq(after, Len(before) + 1, Len(after))

\* every added entry is a loopback host that no earlier entry equals
AddsOnlyMissingHosts(before, after) ==
    \A i \in (Len(before) + 1)..Len(after) :
        /\ \E h \in 1..Len(LOOPBACK) : after[i] = LOOPBACK[h]
        /\ \A j \in 1..(i - 1) : ~SameIgnoringCase(after[j], after[i])

\* C14 as stated: after startup each variable holds the three loopback
\* hosts, the prior entries come first in their order, and the list holds no
\* entry twice; the helper role leaves both variables alone.
C14_ProxyBypassAsStated ==
    /\ mainPc = "run" =>
         \A key \in ProxyKeys :
            LET before == EntriesOf(noProxy0[key])
                after == EntriesOf(noProxy[key]) IN
            /\ noProxy[key].some
            /\ HasLoopbackHosts(after)
            /\ IsPrefixOf(before, after)
            /\ \A i, j \in 1..Len(after) : i # j => after[i] # after[j]
    /\ mainPc = "helper" => noProxy = noProxy0

\* C14 (amended): after startup each variable holds the three loopback
\* hosts, the prior entries come first in their order, and every added entry
\* is a loopback host that no entry before it equals, case ignored (entries
\* the value held twice before startup stay twice); the helper role leaves
\* both variables alone.
C14_ProxyBypass ==
    /\ mainPc = "run" =>
         \A key \in ProxyKeys :
            LET before == EntriesOf(noProxy0[key])
                after == EntriesOf(noProxy[key]) IN
            /\ noProxy[key].some
            /\ HasLoopbackHosts(after)
            /\ IsPrefixOf(before, after)
            /\ AddsOnlyMissingHosts(before, after)
    /\ mainPc = "helper" => noProxy = noProxy0

\* startup has turned no_proxy = "a, LocalHost" into
\* "a,LocalHost,127.0.0.1,::1"
C14_Witness ==
    /\ mainPc = "run"
    /\ noProxy0["no_proxy"] =
         Some(<<"a", ",", " ", "L", "o", "c", "a", "l", "H", "o", "s", "t">>)
    /\ noProxy["no_proxy"] =
         Some(<<"a", ",", "L", "o", "c", "a", "l", "H", "o", "s", "t", ",",
                "1", "2", "7", ".", "0", ".", "0", ".", "1", ",", ":", ":", "1">>)

-----------------------------------------------------------------------------
(* Properties of the askpass round trip and of the listener's abort        *)

\* the helper was started with the arguments ["--ssh-askpass", P]
StartedWithFlag(h) ==
    Len(hargs[h]) = 3 /\ hargs[h][2] = SshAskpassFlag /\ hargs[h][3] # <<>>

\* C13: for a helper started with the arguments ["--ssh-askpass", P] the
\* ssh_prompt event carries the prompt P, and once the reply V for the
\* event's id has been delivered the helper's stdout is V and a newline.
C13_AskpassRoundTrip ==
    \A h \in Handlers :
        StartedWithFlag(h) =>
            /\ hid[h] \in emitted => hprompt[h] = hargs[h][3]
            /\ (hpc[h] = "exited" /\ hid[h] # NoId /\ hval[h] # Empty)
                   => hstdout[h] = ConcatBytes(hval[h], Newline)

\* the handlers the listener of session k has spawned
HandlersOf(k) == { h \in Handlers : hkey[h] = k }

\* a handler that is waiting for the reply of the UI
InFlight(h) == hpc[h] = "wait"

\* C18: once the listener task of a session is aborted none of the handlers
\* it spawned is still waiting for a reply of the UI, and no ssh_prompt event
\* is emitted for that session afterwards.
C18_AbortPropagates ==
    /\ [](\A k \in Keys : askpass[k] = "aborted" =>
                             \A h \in HandlersOf(k) : ~InFlight(h))
    /\ [][\A k \in Keys : askpass[k] = "aborted" =>
                             \A h \in HandlersOf(k) :
                                 hid'[h] \in emitted' => hid[h] \in emitted]_vars

-----------------------------------------------------------------------------
(* Properties of the order of the steps                                    *)

\* the steps of one connect, in the order of ssh.rs 745-844
ConnectOrder ==
    IF unix
    THEN << "ensure_ssh", "parse", "take", "mkdir", "askpass", "master",
            "wait_master", "bootstrap", "server", "port", "forward", "health",
            "install_session" >>
    ELSE << "ensure_ssh", "parse", "take", "mkdir", "askpass", "bootstrap",
            "server", "port", "forward", "health", "install_session" >>

\* caller p's current call has run the step and it succeeded
Succeeded(p, name) ==
    \E i \in 1..Len(steps[p]) : steps[p][i].step = name /\ steps[p][i].ok

\* C15: the steps of one connect run in the fixed order, none is left out,
\* and a step runs only after the step before it has succeeded; what a step
\* leaves behind (directory, listener, children, health, the session in the
\* slot) exists only once the step before it has succeeded.
C15_StepOrder ==
    \A p \in Callers :
        /\ Len(steps[p]) <= Len(ConnectOrder)
        /\ \A i \in 1..Len(steps[p]) :
               /\ steps[p][i].step = ConnectOrder[i]
               /\ i < Len(steps[p]) => steps[p][i].ok
        /\ cur[p] # NoSession =>
               LET k == cur[p] IN
               /\ madeDir[k] => Succeeded(p, "take")
               /\ askpass[k] # "none" => Succeeded(p, "mkdir")
               /\ child[k].master # "none" => unix /\ Succeeded(p, "askpass")
               /\ child[k].server # "none" =>
                      /\ Succeeded(p, "bootstrap")
                      /\ unix => Succeeded(p, "wait_master")
               /\ child[k].forward # "none" => Succeeded(p, "port")
               /\ health[k] => Succeeded(p, "forward")
               /\ k \in installed => Succeeded(p, "health")

\* a connect with multiplexing has run all of its thirteen steps
C15_Witness ==
    \E p \in Callers :
        /\ unix /\ pc[p] = "ok"
        /\ Len(steps[p]) = Len(ConnectOrder)
        /\ cur[p] \in installed

-----------------------------------------------------------------------------
(* Properties of the teardown, of shutdown and of the session mutex        *)

\* disconnect_session has begun on the session and has not returned
TeardownRunning(k) == td[k] \in {"forward", "server", "master", "askpass", "dir"}

SomeChildKilled(k) ==
    child[k].master = "killed" \/ child[k].server = "killed" \/ child[k].forward = "killed"

\* the session directory was created and has been removed
DirRemoved(k) == madeDir[k] /\ ~dir[k]

\* C16: in every teardown the forward is killed first, then the server, then
\* the master if there is one; the askpass task is aborted after the kills
\* and the directory is removed last.
C16_TeardownOrder ==
    \A k \in Keys :
        /\ child[k].server = "killed" => child[k].forward = "killed"
        /\ child[k].master = "killed" => child[k].server = "killed"
        /\ askpass[k] = "aborted" => ~AnyChildAlive(k)
        /\ DirRemoved(k) => askpass[k] = "aborted" /\ ~AnyChildAlive(k)
        /\ td[k] # "none" => tdBy[k] \in {"connect", "task", "shutdown"}

\* a session with a master was torn down by the connect that replaced it, and
\* the session of that connect was torn down by shutdown
C16_Witness ==
    \E k1, k2 \in Keys :
        /\ unix
        /\ TornDown(k1) /\ tdBy[k1] = "connect" /\ child[k1].master = "killed"
        /\ TornDown(k2) /\ tdBy[k2] = "shutdown"

\* C17: in every teardown the askpass listener task is aborted before any of
\* the three SSH children is killed.
C17_AskpassAbortedFirst ==
    \A k \in Keys : SomeChildKilled(k) => askpass[k] = "aborted"

\* C19: when shutdown() returns the slot is empty and the teardown of the
\* session that was in the slot has completed.
C19_ShutdownSynchronous ==
    [][(shPc = "idle" /\ shPc' # "idle") =>
           /\ session' = NoSession
           /\ \A k \in Keys : k = session => TornDown(k)']_vars

\* C20: the session mutex is held for the slot swap only: nobody holds it
\* while the teardown of the session it took from the slot is running or any
\* other step of a connect is pending.
C20_LockDiscipline ==
    /\ lock # "free" => ~TeardownRunning(old[lock])
    /\ \A p \in Callers : lock = p => pc[p] \notin {"teardown"}


-----------------------------------------------------------------------------
(* Properties of the reply to a prompt                                     *)

\* the envelope of a value: its length as four bytes, then the value
Envelope(value) == ToBeBytes(ByteLen(value)) \o value

\* the connection handler h has accepted carries a well-formed prompt
\* envelope
WellFormed(h) == hpc[h] = "accepted" /\ read_prompt(hstream[h]).tag = "ok"

\* the handler has written on its connection
Replied(h) == hpc[h] \in {"done", "exited"} /\ hid[h] # NoId

\* C21: every well-formed prompt gets exactly one reply envelope. A handler
\* whose prompt envelope is well formed eventually writes on its connection;
\* it writes one envelope and nothing after it; the envelope carries the
\* value of the reply consumed for its id before the timeout, and the empty
\* string if the timeout fired; after the write the table has no entry for
\* the id.
C21_OneReplyPerPrompt ==
    /\ \A h \in Handlers : WellFormed(h) ~> (hpc[h] = "done")
    /\ [][\A h \in Handlers :
             hout'[h] # hout[h] =>
                 /\ hout[h] = <<>> /\ hpc[h] = "write"
                 /\ read_prompt(hstream[h]).tag = "ok"
                 /\ hout'[h] = Envelope(hval[h])]_vars
    /\ [](\A h \in Handlers :
             Replied(h) =>
                 /\ hout[h] = Envelope(hval[h])
                 /\ IF hid[h] \in timedOut
                    THEN hval[h] = Empty
                    ELSE sent[hid[h]] = <<hval[h]>>
                 /\ hid[h] \notin prompts)

\* one handler has written the value of a reply, the other has written the
\* empty string after its timeout, and the listener had been aborted
C21_Witness ==
    \E h1, h2 \in Handlers :
        /\ Replied(h1) /\ hval[h1] # Empty /\ hout[h1] = Envelope(hval[h1])
        /\ Replied(h2) /\ hid[h2] \in timedOut /\ hout[h2] = Envelope(Empty)
        /\ askpass[hkey[h1]] = "aborted"

-----------------------------------------------------------------------------
(* Properties of the failures of a connect                                 *)

\* nothing of the session of key k has been created
Untouched(k) == ~madeDir[k] /\ askpass[k] = "none" /\ child[k] = NoChildren

\* C22: the ssh availability gate. Whenever `ssh -V` did not succeed (it could
\* not be spawned, or it exited with a non-zero status) the call has returned
\* an error after that one step: no command was parsed, the slot was not
\* touched and no directory or process was created.
C22_SshAvailabilityGate ==
    \A p \in Callers :
        sshV[p] \in {"spawn_failed", "exit_nonzero"} =>
            /\ pc[p] = "err"
            /\ steps[p] = << [step |-> "ensure_ssh", ok |-> FALSE] >>
            /\ Untouched(cur[p])

\* the version query of caller p's current call has returned
Queried(p) == remoteVer[p] # NotRun

\* ssh_connect of caller p has returned the error of the bootstrap step
BootstrapFailed(p) ==
    /\ pc[p] = "err"
    /\ steps[p][Len(steps[p])] = [step |-> "bootstrap", ok |-> FALSE]
    /\ child[cur[p]].server = "none"

\* C23 as stated: a matching version runs no installer and the bootstrap
\* succeeds; a version query that exits non-zero, or an installer that exits
\* non-zero, makes ssh_connect return the bootstrap error with no remote
\* server launched; the installer runs only after a query that succeeded
\* with a different version.
C23_BootstrapOutcomesAsStated ==
    \A p \in Callers :
        /\ (Queried(p) /\ VersionMatches(remoteVer[p])) =>
               installer[p] = "none" /\ Succeeded(p, "bootstrap")
        /\ (Queried(p) /\ remoteVer[p].tag = "err") => BootstrapFailed(p)
        /\ installer[p] = "failed" => BootstrapFailed(p)
        /\ installer[p] # "none" =>
               remoteVer[p].tag = "ok" /\ ~VersionMatches(remoteVer[p])

\* C23 (amended): a matching version runs no installer and the bootstrap
\* succeeds; the installer runs when the query did not return the local
\* version, whether it failed or returned another one; an installer that
\* exits non-zero makes ssh_connect return the bootstrap error with no remote
\* server launched, and a failed query by itself is no error.
C23_BootstrapOutcomes ==
    \A p \in Callers :
        /\ (Queried(p) /\ VersionMatches(remoteVer[p])) =>
               installer[p] = "none" /\ Succeeded(p, "bootstrap")
        /\ (Queried(p) /\ ~VersionMatches(remoteVer[p])) =>
               \/ pc[p] = "install" /\ installer[p] = "none"
               \/ installer[p] = "ok" /\ Succeeded(p, "bootstrap")
               \/ installer[p] = "failed"
        /\ installer[p] = "failed" => BootstrapFailed(p)
        /\ installer[p] # "none" => Queried(p) /\ ~VersionMatches(remoteVer[p])
        /\ (cur[p] # NoSession /\ child[cur[p]].server # "none") =>
               \/ VersionMatches(remoteVer[p]) /\ installer[p] = "none"
               \/ installer[p] = "ok"

\* one connect has launched its server after a failed query and a successful
\* installer, another has returned the error of a failed installer
C23_Witness ==
    \E p1, p2 \in Callers :
        /\ remoteVer[p1] = QueryErr /\ installer[p1] = "ok"
        /\ child[cur[p1]].server = "alive"
        /\ installer[p2] = "failed" /\ BootstrapFailed(p2)

-----------------------------------------------------------------------------
(* Properties of sh_quote                                                  *)

UnquoteOk(word) == [tag |-> "ok", word |-> word]
UnquoteErr(msg) == [tag |-> "err", msg |-> msg]

\* The word a POSIX shell makes of the text w: inside single quotes every
\* character stands for itself up to the closing quote; outside them a
\* backslash makes the next character stand for itself and a blank ends the
\* word. An error if a quote is left open, the text ends in a backslash, or
\* the text is more than one word.
RECURSIVE UnquoteFrom(_, _, _, _)
UnquoteFrom(w, i, inQuote, acc) ==
    IF i > Len(w)
    THEN IF inQuote THEN UnquoteErr("unterminated quote") ELSE UnquoteOk(acc)
    ELSE IF inQuote
    THEN IF w[i] = Quote
         THEN UnquoteFrom(w, i + 1, FALSE, acc)
         ELSE UnquoteFrom(w, i + 1, TRUE, Append(acc, w[i]))
    ELSE IF w[i] = Quote THEN UnquoteFrom(w, i + 1, TRUE, acc)
    ELSE IF w[i] = Backslash
    THEN IF i = Len(w)
         THEN UnquoteErr("trailing backslash")
         ELSE UnquoteFrom(w, i + 2, FALSE, Append(acc, w[i + 1]))
    ELSE IF w[i] = " " THEN UnquoteErr("more than one word")
    ELSE UnquoteFrom(w, i + 1, FALSE, Append(acc, w[i]))

PosixUnquote(w) == UnquoteFrom(w, 1, FALSE, <<>>)

\* s with every single quote replaced by the four characters '\''
RECURSIVE EscapedAsStated(_)
EscapedAsStated(s) ==
    IF s = <<>> THEN <<>>
    ELSE (IF Head(s) = Quote THEN <<Quote, Backslash, Quote, Quote>> ELSE <<Head(s)>>)
             \o EscapedAsStated(Tail(s))

\* C24: sh_quote(s) is s between single quotes with every single quote of s
\* replaced by the four characters '\'' , and the word a POSIX shell makes
\* of sh_quote(s) is s.
C24_QuoteRoundTrip ==
    qOut # NotRun =>
        /\ qOut = <<Quote>> \o EscapedAsStated(qIn) \o <<Quote>>
        /\ PosixUnquote(qOut) = UnquoteOk(qIn)

-----------------------------------------------------------------------------
(* Properties of the slot under concurrent connects                        *)

\* C25: no session is discarded without teardown. Every session that was
\* installed into the slot and is no longer there was handed to
\* disconnect_session when it left: a connect installs into an empty slot or
\* tears down what it displaces, and no session has left the slot with its
\* children alive, its listener running and its directory present.
C25_NoSessionDropped ==
    \A k \in installed : k # session => td[k] # "none"

-----------------------------------------------------------------------------
(* Properties of termination                                               *)

\* ssh_connect of caller p has returned
Returned(p) == pc[p] \in {"idle", "ok", "err"}

\* the waits of the connect sequence
ConnectWaits == {"wait_master", "bootstrap", "install", "port", "health"}

\* C26: ssh_connect always terminates. Whatever the ssh commands do, every
\* call returns Ok or an error, and no call stays for ever in the wait for
\* the master, in the version query or the installer, in the wait for the
\* port or in the health poll.
C26_ConnectTerminates ==
    /\ \A p \in Callers : \A w \in ConnectWaits : (pc[p] = w) ~> (pc[p] # w)
    /\ \A p \in Callers : (~Returned(p)) ~> Returned(p)

-----------------------------------------------------------------------------
(* Properties of a failed connect and the session before it                *)

\* ssh_connect of caller p has returned an error from the availability check
\* or from the parse
FailedEarly(p) == pc[p] = "err" /\ ~Succeeded(p, "parse")

\* the step in which ssh_connect of caller p returns an error
ReturnsError(p) == pc[p] # "err" /\ pc'[p] = "err"

\* C27: the effect of a failed connect on the session before it. A call that
\* fails at the availability check or at the parse changes nothing of the
\* slot or of any session; when a call that fails at a later step returns
\* its error, the session it found in the slot has been torn down and the
\* slot is empty.
C27_FailedConnectEffect ==
    /\ [][\A p \in Callers :
             (ReturnsError(p) /\ pc[p] \in {"ensure_ssh", "parse"}) =>
                 UNCHANGED <<resVars, slotVars>>]_vars
    /\ [](\A p \in Callers : FailedEarly(p) => old[p] = NoSession)
    /\ [][\A p \in Callers :
             (ReturnsError(p) /\ Succeeded(p, "take")) =>
                 /\ old[p] # NoSession => TornDown(old[p])
                 /\ session' = NoSession]_vars
====
